---- MODULE Spec2Model ----
(***************************************************************************)
(* Verification model of the banner carousel stack of moontvplus:          *)
(*   - the trending route handler with its two in-memory TTL cache slots   *)
(*     (GET, getTXBannerContent, parseTXBannerData),                       *)
(*   - the BannerCarousel component (localStorage read-through cache,      *)
(*     slide navigation),                                                  *)
(*   - the danmaku selection memory.                                       *)
(* Time is counted in hours for the two caches.                            *)
(***************************************************************************)
EXTENDS Integers, Sequences, FiniteSets, TLC

VARIABLES
  \* ---- trending route ----
  tmdbCache,        \* module variable tmdbCache: slot of the metadata provider
  txCache,          \* module variable txCache: slot of the video portal
  now,              \* Date.now(), in hours
  config,           \* what getConfig() currently resolves to
  req,              \* the GET invocations in flight: per request its
                    \* position (pc), bannerDataSource (src), response,
                    \* number of upstream calls, whether the clock moved
                    \* during its upstream call (aged), last event (ev)
  \* ---- BannerCarousel: load ----
  localStorage,     \* the value under LOCALSTORAGE_KEY: [present, text]
  items,            \* useState items
  isLoading,        \* useState isLoading
  load,             \* fetchTrending: position (pc), network requests made
                    \* (calls), last event (ev)
  lastWrite,        \* the entry the carousel last wrote and nobody has
                    \* overwritten since: [set, list, at]
  \* ---- BannerCarousel: slides ----
  currentIndex,     \* useState currentIndex
  isPaused,         \* useState isPaused
  skipNextAutoPlay, \* useState skipNextAutoPlay
  isManualChange,   \* useRef isManualChange
  pendingClears,    \* setTimeout callbacks of the manual guard not yet run
  touchStartX,      \* useRef touchStartX
  touchEndX,        \* useRef touchEndX
  last,             \* the last operation that set the index, and the index
                    \* before it: [op, from]
  run,              \* number of goToNext operations in a row since the
                    \* index was 0 (-1: not in such a row)
  navs,             \* manual navigations since the last timer callback,
                    \* counted up to MaxNavs
  gesture,          \* the touch gesture under way: phase, whether the
                    \* manual guard was off at each of its events so far
                    \* (clean) and, for a clean gesture, the clientX of its
                    \* touch-start (a) and of its last touch-move (b)
  \* ---- danmaku selection memory ----
  sessionStorage,   \* window.sessionStorage: key -> text
  memory,           \* the last call into the selection memory: operation,
                    \* title, episode, whether a storage call of it failed,
                    \* what it returned, whether it raised
  \* ---- source adapter ----
  adapterData,      \* the vendor payload handed to parseTXBannerData
  bannerItems,      \* what the call on it gave: [done, raised, list]
  \* ---- DanmakuPanel ----
  searchKeyword,    \* useState searchKeyword
  searchResults,    \* useState searchResults: the animeIds found
  selectedAnime,    \* useState selectedAnime: an animeId, 0 for null
  episodes,         \* useState episodes: [episodeId, of], "of" being the
                    \* anime the episode list was requested for
  isSearching,      \* useState isSearching
  isLoadingEpisodes,\* useState isLoadingEpisodes
  searchError,      \* useState searchError
  pendingEpisodes,  \* getEpisodes calls in flight, per animeId
  selection         \* the last DanmakuSelection passed to onDanmakuSelect

routeVars == <<tmdbCache, txCache, config, req>>

loadVars == <<localStorage, items, isLoading, load, lastWrite>>

slideVars == <<currentIndex, isPaused, skipNextAutoPlay, isManualChange,
               pendingClears, touchStartX, touchEndX, last, run, navs,
               gesture>>

memoryVars == <<sessionStorage, memory>>

adapterVars == <<adapterData, bannerItems>>

panelVars == <<searchKeyword, searchResults, selectedAnime, episodes,
               isSearching, isLoadingEpisodes, searchError, pendingEpisodes,
               selection>>

otherVars == <<memoryVars, adapterVars, panelVars>>

vars == <<now, routeVars, loadVars, slideVars, otherVars>>

\* ------------------------------------------------------------------------
\* Bounds of the model
\* ------------------------------------------------------------------------
MaxTime == 3

MaxClientTime == 25

MaxItems == 3

MaxPending == 2

MaxNavs == 2

MaxRecords == 2

MaxCards == 2

MaxLoads == 2

Requests == {"r1", "r2"}

\* ------------------------------------------------------------------------
\* Program constants
\* ------------------------------------------------------------------------
\* const CACHE_DURATION = 3 * 60 * 60 * 1000, in hours
CACHE_DURATION == 3

\* const LOCALSTORAGE_DURATION = 24 * 60 * 60 * 1000, in hours
LOCALSTORAGE_DURATION == 24

\* const minSwipeDistance = 50
MinSwipeDistance == 50

\* ------------------------------------------------------------------------
\* JavaScript helpers
\* ------------------------------------------------------------------------
\* NaN, written as a number no index can be
NaN == -1000

\* the % operator: the remainder takes the sign of the dividend, and a
\* remainder by 0 is NaN
JsRem(a, b) ==
  IF b = 0 THEN NaN
  ELSE IF a >= 0 THEN a % b ELSE -((-a) % b)

\* String.prototype.includes on character sequences
Includes(s, sub) ==
  \E i \in 1..(Len(s) - Len(sub) + 1) : SubSeq(s, i, i + Len(sub) - 1) = sub

\* String.prototype.split with a one-character separator
RECURSIVE SplitFrom(_, _, _)
SplitFrom(s, sep, cur) ==
  IF s = <<>> THEN <<cur>>
  ELSE IF Head(s) = sep THEN <<cur>> \o SplitFrom(Tail(s), sep, <<>>)
       ELSE SplitFrom(Tail(s), sep, Append(cur, Head(s)))

Split(s, sep) == SplitFrom(s, sep, <<>>)

\* Boolean(x) of a string: the empty string is falsy
Truthy(s) == s # <<>>

\* a || b on strings
OrElse(a, b) == IF Truthy(a) THEN a ELSE b

\* ------------------------------------------------------------------------
\* Source adapter: parseTXBannerData
\* A payload is [hasCardList, CardList]; a card of CardList is
\* [isNull, type, hasCards, cards]; a shelf card is
\* [isNull, hasParams, title, priority_sub_title, rec_normal_reason,
\*  topic_label, priority_image_url].  Strings are sequences of characters.
\* ------------------------------------------------------------------------
\* the marker '免费合集', written with two characters
PromoMarker == <<"f", "c">>

PcShelves == <<"p", "c">>

\* cardList.find(card => card.type === 'pc_shelves'): the index of the first
\* match, 0 when there is none, -1 when an entry before it is null (card.type
\* raises)
RECURSIVE FindShelf(_, _)
FindShelf(cardList, i) ==
  IF i > Len(cardList) THEN 0
  ELSE IF cardList[i].isNull THEN -1
  ELSE IF cardList[i].type = PcShelves THEN i
  ELSE FindShelf(cardList, i + 1)

HasParams(card) == ~card.isNull /\ card.hasParams

\* item.title.includes raises on a title that is a number; the test of line
\* 199 comes first
IncludesRaises(card) == card.titleIsNumber /\ Truthy(card.priority_image_url)

\* the object built by the .map callback; index is the 0-based map index
BannerItemOf(card, index) ==
  LET subtitle == OrElse(card.priority_sub_title, card.rec_normal_reason)
      topicLabel == card.topic_label
      tags == IF Truthy(topicLabel)
              THEN SelectSeq(Split(topicLabel, "|"), Truthy) ELSE <<>>
      backdropPath == card.priority_image_url
  IN [id |-> index + 1,
      title |-> card.title,
      subtitle |-> subtitle,
      tags |-> tags,
      backdrop_path |-> backdropPath,
      poster_path |-> backdropPath,
      release_date |-> <<>>,
      overview |-> subtitle,
      vote_average |-> 0,
      media_type |-> "tv",
      genre_ids |-> <<>>]

\* the second .filter callback without the test of the marker
KeepItemWithMarker(item) ==
  /\ Truthy(item.title)
  /\ Truthy(item.backdrop_path)

\* the second .filter callback
KeepItem(item) ==
  /\ Truthy(item.title)
  /\ Truthy(item.backdrop_path)
  /\ ~Includes(item.title, PromoMarker)

Parsed(list) == [raised |-> FALSE, list |-> list]

ParseRaised == [raised |-> TRUE, list |-> <<>>]

\* the try block of parseTXBannerData
parseTXBannerDataTry(data) ==
  IF ~data.hasCardList THEN Parsed(<<>>)
  ELSE LET k == FindShelf(data.CardList, 1) IN
    IF k = -1 THEN ParseRaised        \* card.type on a null entry
    ELSE IF k = 0 THEN Parsed(<<>>)   \* no shelf card
    ELSE LET shelf == data.CardList[k] IN
      IF ~shelf.hasCards THEN Parsed(<<>>)
      ELSE IF \E j \in 1..Len(shelf.cards) : shelf.cards[j].isNull
           THEN ParseRaised           \* card.params on a null card
      ELSE LET withParams == SelectSeq(shelf.cards, HasParams)
               mapped == [j \in 1..Len(withParams) |->
                            BannerItemOf(withParams[j], j - 1)]
           IN IF \E j \in 1..Len(withParams) : IncludesRaises(withParams[j])
              THEN ParseRaised
              ELSE Parsed(SelectSeq(mapped, KeepItem))

\* parseTXBannerData without its catch block
parseTXBannerDataOutcomeUncaught(data) == parseTXBannerDataTry(data)

\* try and catch of parseTXBannerData: what the call gives
parseTXBannerDataOutcome(data) ==
  IF parseTXBannerDataTry(data).raised THEN Parsed(<<>>)   \* catch
  ELSE parseTXBannerDataTry(data)

parseTXBannerData(data) == parseTXBannerDataOutcome(data).list

\* ------------------------------------------------------------------------
\* Trending route: inputs
\* ------------------------------------------------------------------------
ShelfCard(title, image, label) ==
  [isNull |-> FALSE, hasParams |-> TRUE, titleIsNumber |-> FALSE, title |-> title,
   priority_sub_title |-> <<>>, rec_normal_reason |-> <<"r">>,
   topic_label |-> label, priority_image_url |-> image]

TopCard(type, cards) ==
  [isNull |-> FALSE, type |-> type, hasCards |-> TRUE, cards |-> cards]

\* vendor payloads the video portal answers with
TXPayloads ==
  { [hasCardList |-> TRUE,
     CardList |-> << TopCard(<<"a">>, <<>>),
                     TopCard(PcShelves,
                       << ShelfCard(<<"x">>, <<"u">>, <<"a", "|", "b">>),
                          ShelfCard(<<"f", "c">>, <<"u">>, <<>>),
                          ShelfCard(<<"y">>, <<"v">>, <<>>) >>) >>] }

NoPayload == [hasCardList |-> FALSE, CardList |-> <<>>]

\* what the POST to the video portal can end in: an HTTP response (status,
\* body), the 15 s AbortSignal firing, or a network error
TXOutcomes ==
  [kind : {"response"}, status : {200}, jsonOk : {TRUE}, data : TXPayloads]
  \cup [kind : {"response"}, status : {404}, jsonOk : {TRUE}, data : {NoPayload}]
  \cup [kind : {"timeout", "throw"}, status : {0}, jsonOk : {FALSE}, data : {NoPayload}]

\* a result object {code, list} / {code, message}; "from" records which
\* producer built it
Result(from, code, list) ==
  [from |-> from, code |-> code, list |-> list, message |-> FALSE]

ErrorBody(code) ==
  [from |-> "handler", code |-> code, list |-> <<>>, message |-> TRUE]

NoBody == [from |-> "none", code |-> 0, list |-> <<>>, message |-> FALSE]

\* what getTMDBTrendingContent (external client) can resolve to; "throw"
\* stands for a rejected promise
TMDBItem(id) ==
  [id |-> id, title |-> <<"t">>, subtitle |-> <<>>, tags |-> <<>>,
   backdrop_path |-> <<"b">>, poster_path |-> <<"p">>, release_date |-> <<"d">>,
   overview |-> <<"o">>, vote_average |-> 7, media_type |-> "movie",
   genre_ids |-> <<1>>]

TMDBOutcomes ==
  { [kind |-> "ok", result |-> Result("TMDB", 200, <<TMDBItem(7), TMDBItem(8)>>)],
    [kind |-> "throw", result |-> NoBody] }

\* what getConfig() can resolve to (SiteConfig.BannerDataSource,
\* SiteConfig.TMDBApiKey); the empty string stands for an unset field
Configs == [BannerDataSource : {"TX", ""}, TMDBApiKey : {"", "key"}]

\* ------------------------------------------------------------------------
\* Trending route: getTXBannerContent
\* ------------------------------------------------------------------------
\* every failure reported as code 500
getTXBannerContentFlat(outcome) ==
  IF outcome.kind = "response" /\ outcome.status >= 200 /\ outcome.status <= 299
     /\ outcome.jsonOk
  THEN Result("TX", 200, parseTXBannerData(outcome.data))
  ELSE Result("TX", 500, <<>>)

\* response.ok
ResponseOk(status) == status >= 200 /\ status <= 299

getTXBannerContent(outcome) ==
  IF outcome.kind # "response" THEN Result("TX", 500, <<>>)   \* catch
  ELSE IF ~ResponseOk(outcome.status)
       THEN Result("TX", outcome.status, <<>>)
  ELSE IF ~outcome.jsonOk THEN Result("TX", 500, <<>>)        \* catch
  ELSE Result("TX", 200, parseTXBannerData(outcome.data))

\* ------------------------------------------------------------------------
\* Trending route: GET
\* ------------------------------------------------------------------------
NoCache == [present |-> FALSE, data |-> NoBody, timestamp |-> 0]

CacheEntry(data, timestamp) ==
  [present |-> TRUE, data |-> data, timestamp |-> timestamp]

\* NextResponse.json(body, {status})
Json(body, status) == [status |-> status, body |-> body]

NoResponse == Json(NoBody, 0)

IdleReq ==
  [pc |-> "idle", src |-> "", resp |-> NoResponse, calls |-> 0,
   aged |-> FALSE, ev |-> "none"]

\* config.SiteConfig?.BannerDataSource || 'TMDB'
BannerDataSourceOf(c) ==
  IF c.BannerDataSource = "" THEN "TMDB" ELSE c.BannerDataSource

\* one slot shared by both sources
CacheForShared(bannerDataSource) == tmdbCache

\* bannerDataSource === 'TX' ? txCache : tmdbCache
CacheFor(bannerDataSource) ==
  IF bannerDataSource = "TX" THEN txCache ELSE tmdbCache

\* the same check with <= for <
CacheFreshInclusive(cache, t) ==
  cache.present /\ t - cache.timestamp <= CACHE_DURATION

\* cache && Date.now() - cache.timestamp < CACHE_DURATION
CacheFresh(cache, t) == cache.present /\ t - cache.timestamp < CACHE_DURATION

\* the key check left out
MissingKeyNever(apiKey) == FALSE

\* !apiKey
MissingKey(apiKey) == apiKey = ""

\* a request arrives: GET starts and awaits getConfig()
GETStart(r) ==
  /\ req[r].pc = "idle"
  /\ req' = [req EXCEPT ![r] = [IdleReq EXCEPT !.pc = "awaitConfig"]]
  /\ UNCHANGED <<tmdbCache, txCache, now, config>>
  /\ UNCHANGED <<loadVars, slideVars, otherVars>>

\* getConfig() rejects: the catch block answers 500
GETConfigThrows(r) ==
  /\ req[r].pc = "awaitConfig"
  /\ req' = [req EXCEPT ![r] = [@ EXCEPT !.pc = "done", !.ev = "configThrow",
                                         !.resp = Json(ErrorBody(500), 500)]]
  /\ UNCHANGED <<tmdbCache, txCache, now, config>>
  /\ UNCHANGED <<loadVars, slideVars, otherVars>>

\* getConfig() resolves: lines 20-54 up to the next await
GETConfigResolved(r) ==
  /\ req[r].pc = "awaitConfig"
  /\ LET bannerDataSource == BannerDataSourceOf(config)
         cache == CacheFor(bannerDataSource)
         apiKey == config.TMDBApiKey
         me == [req[r] EXCEPT !.src = bannerDataSource]
     IN req' = [req EXCEPT ![r] =
          IF CacheFresh(cache, now)
            THEN [me EXCEPT !.pc = "done", !.ev = "hit",
                            !.resp = Json(cache.data, 200)]
          ELSE IF bannerDataSource = "TX"
            THEN [me EXCEPT !.pc = "awaitTX", !.ev = "miss", !.calls = @ + 1]
          ELSE IF MissingKey(apiKey)
            THEN [me EXCEPT !.pc = "done", !.ev = "noKey",
                            !.resp = Json(ErrorBody(400), 400)]
          ELSE [me EXCEPT !.pc = "awaitTMDB", !.ev = "miss", !.calls = @ + 1]]
  /\ UNCHANGED <<tmdbCache, txCache, now, config>>
  /\ UNCHANGED <<loadVars, slideVars, otherVars>>

\* the same with only a result of code 200 stored
GETTXDoneOkOnly(r, outcome) ==
  /\ req[r].pc = "awaitTX"
  /\ LET result == getTXBannerContent(outcome) IN
       /\ txCache' = IF result.code = 200 THEN CacheEntry(result, now)
                     ELSE txCache
       /\ req' = [req EXCEPT ![r] = [@ EXCEPT !.pc = "done", !.aged = FALSE,
                                             !.ev = outcome.kind,
                                             !.resp = Json(result, 200)]]
  /\ UNCHANGED <<tmdbCache, now, config>>
  /\ UNCHANGED <<loadVars, slideVars, otherVars>>

\* the same with a slot that is fresh by then left as it is
GETTXDoneKeepFirst(r, outcome) ==
  /\ req[r].pc = "awaitTX"
  /\ LET result == getTXBannerContent(outcome) IN
       /\ txCache' = IF CacheFresh(txCache, now) THEN txCache
                     ELSE CacheEntry(result, now)
       /\ req' = [req EXCEPT ![r] = [@ EXCEPT !.pc = "done", !.aged = FALSE,
                                             !.ev = outcome.kind,
                                             !.resp = Json(result, 200)]]
  /\ UNCHANGED <<tmdbCache, now, config>>
  /\ UNCHANGED <<loadVars, slideVars, otherVars>>

\* getTXBannerContent() resolves: lines 35-40 and 62
GETTXDone(r, outcome) ==
  /\ req[r].pc = "awaitTX"
  /\ LET result == getTXBannerContent(outcome) IN
       /\ txCache' = CacheEntry(result, now)
       /\ req' = [req EXCEPT ![r] = [@ EXCEPT !.pc = "done", !.aged = FALSE,
                                             !.ev = outcome.kind,
                                             !.resp = Json(result, 200)]]
  /\ UNCHANGED <<tmdbCache, now, config>>
  /\ UNCHANGED <<loadVars, slideVars, otherVars>>

\* the same with the slot dropped when the fetch fails
GETTMDBDoneDropping(r, outcome) ==
  /\ req[r].pc = "awaitTMDB"
  /\ IF outcome.kind = "throw"
       THEN /\ req' = [req EXCEPT ![r] = [@ EXCEPT !.pc = "done", !.ev = "tmdbThrow",
                                             !.aged = FALSE,
                                             !.resp = Json(ErrorBody(500), 500)]]
            /\ tmdbCache' = NoCache
       ELSE /\ tmdbCache' = CacheEntry(outcome.result, now)
            /\ req' = [req EXCEPT ![r] = [@ EXCEPT !.pc = "done", !.ev = "ok",
                                             !.aged = FALSE,
                                             !.resp = Json(outcome.result, 200)]]
  /\ UNCHANGED <<txCache, now, config>>
  /\ UNCHANGED <<loadVars, slideVars, otherVars>>

\* getTMDBTrendingContent() settles: lines 54-62, or the catch block
GETTMDBDone(r, outcome) ==
  /\ req[r].pc = "awaitTMDB"
  /\ IF outcome.kind = "throw"
       THEN /\ req' = [req EXCEPT ![r] = [@ EXCEPT !.pc = "done", !.ev = "tmdbThrow",
                                             !.aged = FALSE,
                                             !.resp = Json(ErrorBody(500), 500)]]
            /\ UNCHANGED tmdbCache
       ELSE /\ tmdbCache' = CacheEntry(outcome.result, now)
            /\ req' = [req EXCEPT ![r] = [@ EXCEPT !.pc = "done", !.ev = "ok",
                                             !.aged = FALSE,
                                             !.resp = Json(outcome.result, 200)]]
  /\ UNCHANGED <<txCache, now, config>>
  /\ UNCHANGED <<loadVars, slideVars, otherVars>>

\* the response has been sent; the request slot is free again
GETReturn(r) ==
  /\ req[r].pc = "done"
  /\ req' = [req EXCEPT ![r] = IdleReq]
  /\ UNCHANGED <<tmdbCache, txCache, now, config>>
  /\ UNCHANGED <<loadVars, slideVars, otherVars>>

\* the administrator saves another site configuration
SetConfig(c) ==
  /\ config # c
  /\ config' = c
  /\ UNCHANGED <<tmdbCache, txCache, now, req>>
  /\ UNCHANGED <<loadVars, slideVars, otherVars>>

\* an hour passes.  The POST to the video portal is abandoned after 15 s
\* (AbortSignal.timeout(15000)), so it spans at most one tick.
Tick ==
  /\ now < MaxTime
  /\ \A r \in Requests : ~(req[r].pc = "awaitTX" /\ req[r].aged)
  /\ now' = now + 1
  /\ req' = [r \in Requests |->
               IF req[r].pc \in {"awaitTX", "awaitTMDB"}
               THEN [req[r] EXCEPT !.aged = TRUE]
               ELSE req[r]]
  /\ UNCHANGED <<tmdbCache, txCache, config>>
  /\ UNCHANGED <<loadVars, slideVars, otherVars>>

\* ------------------------------------------------------------------------
\* JavaScript values and JSON text
\* A value is [t, n, s, v]: t its type, n a number's value, s a string's
\* text, v an array's elements or an object's <<key, value>> pairs in
\* insertion order.  A JSON text is a sequence of tokens [k, s, n]:
\* punctuation and literals (k = "p"), numbers (k = "n"), strings (k = "s").
\* ------------------------------------------------------------------------
Undefined == [t |-> "undefined", n |-> 0, s |-> "", v |-> <<>>]

Null == [t |-> "null", n |-> 0, s |-> "", v |-> <<>>]

Num(n) == [t |-> "number", n |-> n, s |-> "", v |-> <<>>]

Str(s) == [t |-> "string", n |-> 0, s |-> s, v |-> <<>>]

Arr(elems) == [t |-> "array", n |-> 0, s |-> "", v |-> elems]

Obj(pairs) == [t |-> "object", n |-> 0, s |-> "", v |-> pairs]

Punct(c) == [k |-> "p", s |-> c, n |-> 0]

NumTok(n) == [k |-> "n", s |-> "", n |-> n]

StrTok(s) == [k |-> "s", s |-> s, n |-> 0]

\* JSON.stringify
RECURSIVE Stringify(_), StringifyElems(_), StringifyMembers(_, _)
Stringify(val) ==
  CASE val.t = "number" -> <<NumTok(val.n)>>
    [] val.t = "string" -> <<StrTok(val.s)>>
    [] val.t = "array" -> <<Punct("[")>> \o StringifyElems(val.v) \o <<Punct("]")>>
    [] val.t = "object" ->
         <<Punct("{")>> \o StringifyMembers(val.v, TRUE) \o <<Punct("}")>>
    [] OTHER -> <<Punct("null")>>

StringifyElems(elems) ==
  IF elems = <<>> THEN <<>>
  ELSE Stringify(Head(elems))
       \o (IF Tail(elems) = <<>> THEN <<>>
           ELSE <<Punct(",")>> \o StringifyElems(Tail(elems)))

\* a member whose value is undefined is left out
StringifyMembers(pairs, first) ==
  IF pairs = <<>> THEN <<>>
  ELSE IF Head(pairs)[2].t = "undefined" THEN StringifyMembers(Tail(pairs), first)
  ELSE (IF first THEN <<>> ELSE <<Punct(",")>>)
       \o <<StrTok(Head(pairs)[1]), Punct(":")>> \o Stringify(Head(pairs)[2])
       \o StringifyMembers(Tail(pairs), FALSE)

ParseFail == [ok |-> FALSE, val |-> Undefined, next |-> 0]

ParseOk(val, next) == [ok |-> TRUE, val |-> val, next |-> next]

\* JSON.parse, by recursive descent from token i
RECURSIVE ParseValue(_, _), ParseElems(_, _, _), ParseMembers(_, _, _)
ParseValue(toks, i) ==
  IF i > Len(toks) THEN ParseFail
  ELSE LET tk == toks[i] IN
    CASE tk.k = "n" -> ParseOk(Num(tk.n), i + 1)
      [] tk.k = "s" -> ParseOk(Str(tk.s), i + 1)
      [] tk = Punct("null") -> ParseOk(Null, i + 1)
      [] tk = Punct("[") ->
           IF i + 1 <= Len(toks) /\ toks[i + 1] = Punct("]")
           THEN ParseOk(Arr(<<>>), i + 2)
           ELSE ParseElems(toks, i + 1, <<>>)
      [] tk = Punct("{") ->
           IF i + 1 <= Len(toks) /\ toks[i + 1] = Punct("}")
           THEN ParseOk(Obj(<<>>), i + 2)
           ELSE ParseMembers(toks, i + 1, <<>>)
      [] OTHER -> ParseFail

ParseElems(toks, i, acc) ==
  LET r == ParseValue(toks, i) IN
  IF ~r.ok \/ r.next > Len(toks) THEN ParseFail
  ELSE IF toks[r.next] = Punct(",")
       THEN ParseElems(toks, r.next + 1, Append(acc, r.val))
  ELSE IF toks[r.next] = Punct("]")
       THEN ParseOk(Arr(Append(acc, r.val)), r.next + 1)
  ELSE ParseFail

ParseMembers(toks, i, acc) ==
  IF i + 1 > Len(toks) \/ toks[i].k # "s" \/ toks[i + 1] # Punct(":")
  THEN ParseFail
  ELSE LET r == ParseValue(toks, i + 2) IN
    IF ~r.ok \/ r.next > Len(toks) THEN ParseFail
    ELSE IF toks[r.next] = Punct(",")
         THEN ParseMembers(toks, r.next + 1, Append(acc, <<toks[i].s, r.val>>))
    ELSE IF toks[r.next] = Punct("}")
         THEN ParseOk(Obj(Append(acc, <<toks[i].s, r.val>>)), r.next + 1)
    ELSE ParseFail

\* JSON.parse(text): ok = FALSE stands for the SyntaxError
JSONParse(text) ==
  LET r == ParseValue(text, 1) IN
  IF r.ok /\ r.next = Len(text) + 1 THEN r ELSE ParseFail

\* obj[key]: the last member of that name; undefined when there is none or
\* the value is not an object
RECURSIVE GetFrom(_, _, _)
GetFrom(pairs, key, found) ==
  IF pairs = <<>> THEN found
  ELSE GetFrom(Tail(pairs), key,
               IF Head(pairs)[1] = key THEN Head(pairs)[2] ELSE found)

Get(val, key) ==
  IF val.t = "object" THEN GetFrom(val.v, key, Undefined) ELSE Undefined

\* ------------------------------------------------------------------------
\* BannerCarousel: the load (fetchTrending)
\* ------------------------------------------------------------------------
\* a banner item as the trending route serialises it
ItemVal(id) == Obj(<< <<"id", Num(id)>>, <<"title", Str("t")>> >>)

ItemList(n) == [i \in 1..n |-> ItemVal(i)]

\* {code, list} as response.json() returns it
ListResult(code, list) == Obj(<< <<"code", Num(code)>>, <<"list", Arr(list)>> >>)

\* what fetch('/api/tmdb/trending') followed by response.json() can end in:
\* a parsed body, or a rejection (network error, body that is not JSON)
ClientOutcomes ==
  { [kind |-> "json", result |-> ListResult(200, ItemList(1))],
    [kind |-> "json", result |-> ListResult(200, ItemList(2))],
    [kind |-> "json", result |-> ListResult(200, <<>>)],
    [kind |-> "json", result |-> ListResult(500, <<>>)],
    [kind |-> "json",
     result |-> Obj(<< <<"code", Num(400)>>, <<"message", Str("m")>> >>)],
    [kind |-> "throw", result |-> Undefined] }

NoItem == [present |-> FALSE, text |-> <<>>]

StoredText(text) == [present |-> TRUE, text |-> text]

\* values other code of the origin, an older release or the user can leave
\* under the key at time t
ForeignTexts(t) ==
  { <<>>,                                                   \* ""
    <<Punct("{"), StrTok("data"), Punct(":")>>,             \* cut off
    <<Punct("null")>>,
    Stringify(Obj(<< <<"timestamp", Num(t)>> >>)),
    Stringify(Obj(<< <<"data", Arr(ItemList(1))>> >>)),
    Stringify(Obj(<< <<"data", Num(5)>>, <<"timestamp", Num(t)>> >>)) }

\* x.length: the number of elements of an array, -1 for undefined (a number,
\* an object); reading it from undefined or null raises a TypeError
LengthOf(val) == IF val.t = "array" THEN Len(val.v) ELSE -1

LengthThrows(val) == val.t \in {"undefined", "null"}

\* now - timestamp: [nan, n]
Minus(t, timestamp) ==
  CASE timestamp.t = "number" -> [nan |-> FALSE, n |-> t - timestamp.n]
    [] timestamp.t = "null" -> [nan |-> FALSE, n |-> t]
    [] OTHER -> [nan |-> TRUE, n |-> 0]

\* a < b where a may be NaN
Less(a, b) == ~a.nan /\ a.n < b

\* the object written on a successful fetch, under the key "list"
CacheTextAsList(list, t) ==
  Stringify(Obj(<< <<"list", list>>, <<"timestamp", Num(t)>> >>))

\* JSON.stringify({data: result.list, timestamp: Date.now()})
CacheText(list, t) ==
  Stringify(Obj(<< <<"data", list>>, <<"timestamp", Num(t)>> >>))

Hit(data) == [kind |-> "hit", data |-> data]

Miss == [kind |-> "miss", data |-> Undefined]

Raised == [kind |-> "raised", data |-> Undefined]

\* lines 56-71 without the inner try/catch
CacheLookupUncaught(cached, t) ==
  IF ~cached.present \/ cached.text = <<>> THEN Miss
  ELSE LET parsed == JSONParse(cached.text) IN
    IF ~parsed.ok THEN Raised
    ELSE IF parsed.val.t = "null" THEN Raised
    ELSE IF Less(Minus(t, Get(parsed.val, "timestamp")), LOCALSTORAGE_DURATION)
         THEN Hit(Get(parsed.val, "data"))
    ELSE Miss

\* lines 56-71: if (cached) { try { parse, compare, use } catch { } }
CacheLookup(cached, t) ==
  IF ~cached.present \/ cached.text = <<>> THEN Miss
  ELSE LET parsed == JSONParse(cached.text) IN
    IF ~parsed.ok THEN Miss                      \* SyntaxError, caught
    ELSE IF parsed.val.t = "null" THEN Miss      \* destructuring null, caught
    ELSE IF Less(Minus(t, Get(parsed.val, "timestamp")), LOCALSTORAGE_DURATION)
         THEN Hit(Get(parsed.val, "data"))
    ELSE Miss

NoWrite == [set |-> FALSE, list |-> <<>>, at |-> 0]

Mounted == [pc |-> "mounted", calls |-> 0, ev |-> "none"]

\* the component mounts: useState initial values, effect pending
Mount ==
  /\ load.pc = "done"
  /\ items' = Arr(<<>>)
  /\ isLoading' = TRUE
  /\ load' = Mounted
  /\ UNCHANGED <<now, localStorage, lastWrite>>
  /\ UNCHANGED <<routeVars, slideVars, otherVars>>

\* the same without the finally block
FetchTrendingStartNoFinally(getItemThrows) ==
  /\ load.pc = "mounted"
  /\ LET lookup == IF getItemThrows THEN Raised
                   ELSE CacheLookup(localStorage, now) IN
       CASE lookup.kind = "hit" ->
              /\ items' = lookup.data
              /\ isLoading' = FALSE
              /\ load' = [load EXCEPT !.pc = "done", !.ev = "hit"]
         [] lookup.kind = "miss" ->
              /\ load' = [load EXCEPT !.pc = "fetching", !.ev = "miss",
                                      !.calls = @ + 1]
              /\ UNCHANGED <<items, isLoading>>
         [] OTHER ->
              /\ load' = [load EXCEPT !.pc = "done", !.ev = "raised"]
              /\ UNCHANGED <<items, isLoading>>
  /\ UNCHANGED <<now, localStorage, lastWrite>>
  /\ UNCHANGED <<routeVars, slideVars, otherVars>>

\* the effect runs fetchTrending up to the await of line 74; getItemThrows:
\* localStorage.getItem raises
FetchTrendingStart(getItemThrows) ==
  /\ load.pc = "mounted"
  /\ LET lookup == IF getItemThrows THEN Raised
                   ELSE CacheLookup(localStorage, now) IN
       CASE lookup.kind = "hit" ->
              /\ items' = lookup.data
              /\ isLoading' = FALSE
              /\ load' = [load EXCEPT !.pc = "done", !.ev = "hit"]
         [] lookup.kind = "miss" ->
              /\ load' = [load EXCEPT !.pc = "fetching", !.ev = "miss",
                                      !.calls = @ + 1]
              /\ UNCHANGED <<items, isLoading>>
         [] OTHER ->                      \* outer catch, finally
              /\ isLoading' = FALSE
              /\ load' = [load EXCEPT !.pc = "done", !.ev = "raised"]
              /\ UNCHANGED items
  /\ UNCHANGED <<now, localStorage, lastWrite>>
  /\ UNCHANGED <<routeVars, slideVars, otherVars>>

\* the same with the entry written before the state is set and no inner
\* try/catch
FetchTrendingDoneUnguarded(outcome, setItemThrows) ==
  /\ load.pc = "fetching"
  /\ LET result == outcome.result
         list == Get(result, "list") IN
       IF outcome.kind = "throw"
          \/ (Get(result, "code") = Num(200) /\ LengthThrows(list))
       THEN /\ load' = [load EXCEPT !.pc = "done", !.ev = "raised"]
            /\ UNCHANGED <<items, localStorage, lastWrite>>
       ELSE IF Get(result, "code") = Num(200) /\ LengthOf(list) > 0
       THEN IF setItemThrows
            THEN /\ load' = [load EXCEPT !.pc = "done", !.ev = "raised"]
                 /\ UNCHANGED <<items, localStorage, lastWrite>>
            ELSE /\ items' = list
                 /\ localStorage' = StoredText(CacheText(list, now))
                 /\ lastWrite' = [set |-> TRUE, list |-> list, at |-> now]
                 /\ load' = [load EXCEPT !.pc = "done", !.ev = "stored"]
       ELSE /\ load' = [load EXCEPT !.pc = "done", !.ev = "rejected"]
            /\ UNCHANGED <<items, localStorage, lastWrite>>
  /\ isLoading' = FALSE
  /\ UNCHANGED now
  /\ UNCHANGED <<routeVars, slideVars, otherVars>>

\* the same with the test of the list length left out
FetchTrendingDoneAnyList(outcome, setItemThrows) ==
  /\ load.pc = "fetching"
  /\ LET result == outcome.result
         list == Get(result, "list") IN
       IF outcome.kind = "throw"
          \/ (Get(result, "code") = Num(200) /\ LengthThrows(list))
       THEN /\ load' = [load EXCEPT !.pc = "done", !.ev = "raised"]
            /\ UNCHANGED <<items, localStorage, lastWrite>>
       ELSE IF Get(result, "code") = Num(200)
       THEN /\ items' = list
            /\ IF setItemThrows
               THEN /\ load' = [load EXCEPT !.pc = "done", !.ev = "unstored"]
                    /\ UNCHANGED <<localStorage, lastWrite>>
               ELSE /\ localStorage' = StoredText(CacheText(list, now))
                    /\ lastWrite' = [set |-> TRUE, list |-> list, at |-> now]
                    /\ load' = [load EXCEPT !.pc = "done", !.ev = "stored"]
       ELSE /\ load' = [load EXCEPT !.pc = "done", !.ev = "rejected"]
            /\ UNCHANGED <<items, localStorage, lastWrite>>
  /\ isLoading' = FALSE
  /\ UNCHANGED now
  /\ UNCHANGED <<routeVars, slideVars, otherVars>>

\* fetch and response.json() settle: lines 74-94; setItemThrows:
\* localStorage.setItem raises (quota)
FetchTrendingDone(outcome, setItemThrows) ==
  /\ load.pc = "fetching"
  /\ LET result == outcome.result
         list == Get(result, "list") IN
       IF outcome.kind = "throw"
          \/ (Get(result, "code") = Num(200) /\ LengthThrows(list))
       THEN /\ load' = [load EXCEPT !.pc = "done", !.ev = "raised"]
            /\ UNCHANGED <<items, localStorage, lastWrite>>
       ELSE IF Get(result, "code") = Num(200) /\ LengthOf(list) > 0
       THEN /\ items' = list
            /\ IF setItemThrows
               THEN /\ load' = [load EXCEPT !.pc = "done", !.ev = "unstored"]
                    /\ UNCHANGED <<localStorage, lastWrite>>
               ELSE /\ localStorage' = StoredText(CacheText(list, now))
                    /\ lastWrite' = [set |-> TRUE, list |-> list, at |-> now]
                    /\ load' = [load EXCEPT !.pc = "done", !.ev = "stored"]
       ELSE /\ load' = [load EXCEPT !.pc = "done", !.ev = "rejected"]
            /\ UNCHANGED <<items, localStorage, lastWrite>>
  /\ isLoading' = FALSE
  /\ UNCHANGED now
  /\ UNCHANGED <<routeVars, slideVars, otherVars>>

\* somebody else writes the key
ForeignSetItem(text) ==
  /\ localStorage # StoredText(text)
  /\ localStorage' = StoredText(text)
  /\ lastWrite' = NoWrite
  /\ UNCHANGED <<now, items, isLoading, load>>
  /\ UNCHANGED <<routeVars, slideVars, otherVars>>

\* the key is removed (site data cleared)
ForeignRemoveItem ==
  /\ localStorage.present
  /\ localStorage' = NoItem
  /\ lastWrite' = NoWrite
  /\ UNCHANGED <<now, items, isLoading, load>>
  /\ UNCHANGED <<routeVars, slideVars, otherVars>>

\* an hour passes in the browser
ClientTick ==
  /\ now < MaxClientTime
  /\ now' = now + 1
  /\ UNCHANGED <<localStorage, items, isLoading, load, lastWrite>>
  /\ UNCHANGED <<routeVars, slideVars, otherVars>>

\* items.length read by the render (dependency arrays of lines 115, 124)
RenderThrows == LengthThrows(items)

\* ------------------------------------------------------------------------
\* BannerCarousel: slides
\* ------------------------------------------------------------------------
\* e.touches[0].clientX values
TouchXs == {0, 20, 70, 121}

\* a render that returns the controls for an empty list
RenderedWhenEmpty == ~isLoading

\* the carousel is on screen: lines 184-196
Rendered == ~isLoading /\ LengthOf(items) > 0

\* prev - 1 without the + items.length
PreviousIndexNoWrap(prev, length) == JsRem(prev - 1, length)

\* (prev - 1 + items.length) % items.length
PreviousIndex(prev, length) == JsRem(prev - 1 + length, length)

\* prev + 1 without the % items.length
NextIndexNoWrap(prev, length) == prev + 1

\* (prev + 1) % items.length
NextIndex(prev, length) == JsRem(prev + 1, length)

Abs(x) == IF x < 0 THEN -x ELSE x

\* run after operation op has set the index: a goToNext extends a row (a row
\* that has gone round starts again), anything else starts one at index 0
RunAfter(op, index) ==
  IF op = "next" /\ run >= 0
  THEN (IF run >= LengthOf(items) THEN 0 ELSE run) + 1
  ELSE IF index = 0 THEN 0
  ELSE -1

\* the shared body without setSkipNextAutoPlay(true)
ManualChangeNoSkip(index, op) ==
  /\ pendingClears < MaxPending
  /\ isManualChange' = TRUE
  /\ UNCHANGED skipNextAutoPlay
  /\ currentIndex' = index
  /\ pendingClears' = pendingClears + 1
  /\ last' = [op |-> op, from |-> currentIndex]
  /\ run' = RunAfter(op, index)
  /\ navs' = IF navs < MaxNavs THEN navs + 1 ELSE navs

\* the body shared by goToPrevious, goToNext and goToSlide: guard, skip
\* flag, index, setTimeout(..., 100)
ManualChange(index, op) ==
  /\ pendingClears < MaxPending
  /\ isManualChange' = TRUE
  /\ skipNextAutoPlay' = TRUE
  /\ currentIndex' = index
  /\ pendingClears' = pendingClears + 1
  /\ last' = [op |-> op, from |-> currentIndex]
  /\ run' = RunAfter(op, index)
  /\ navs' = IF navs < MaxNavs THEN navs + 1 ELSE navs

goToPrevious == ManualChange(PreviousIndex(currentIndex, LengthOf(items)), "prev")

goToNext == ManualChange(NextIndex(currentIndex, LengthOf(items)), "next")

goToSlide(index) == ManualChange(index, "jump")

\* click on the left arrow
ClickPrevious ==
  /\ Rendered
  /\ goToPrevious
  /\ UNCHANGED <<isPaused, touchStartX, touchEndX, gesture>>
  /\ UNCHANGED <<now, routeVars, loadVars, otherVars>>

\* click on the right arrow
ClickNext ==
  /\ Rendered
  /\ goToNext
  /\ UNCHANGED <<isPaused, touchStartX, touchEndX, gesture>>
  /\ UNCHANGED <<now, routeVars, loadVars, otherVars>>

\* click on indicator button index
ClickIndicator(index) ==
  /\ Rendered
  /\ index \in 0..(LengthOf(items) - 1)
  /\ goToSlide(index)
  /\ UNCHANGED <<isPaused, touchStartX, touchEndX, gesture>>
  /\ UNCHANGED <<now, routeVars, loadVars, otherVars>>

\* a setTimeout callback of the manual guard runs
ManualChangeTimeout ==
  /\ pendingClears > 0
  /\ isManualChange' = FALSE
  /\ pendingClears' = pendingClears - 1
  /\ UNCHANGED <<currentIndex, isPaused, skipNextAutoPlay, touchStartX,
                 touchEndX, last, run, navs, gesture>>
  /\ UNCHANGED <<now, routeVars, loadVars, otherVars>>

\* the callback of an effect that does not look at isPaused
AutoPlayTickWhilePaused ==
  /\ LengthOf(items) > 0
  /\ IF skipNextAutoPlay
     THEN /\ skipNextAutoPlay' = FALSE
          /\ UNCHANGED <<currentIndex, last, run>>
     ELSE /\ currentIndex' = NextIndex(currentIndex, LengthOf(items))
          /\ last' = [op |-> "tick", from |-> currentIndex]
          /\ run' = RunAfter("tick", currentIndex')
          /\ UNCHANGED skipNextAutoPlay
  /\ navs' = 0
  /\ UNCHANGED <<isPaused, isManualChange, pendingClears, touchStartX, touchEndX,
                 gesture>>
  /\ UNCHANGED <<now, routeVars, loadVars, otherVars>>

\* the callback without setSkipNextAutoPlay(false)
AutoPlayTickKeepsFlag ==
  /\ LengthOf(items) > 0
  /\ ~isPaused
  /\ IF skipNextAutoPlay
     THEN UNCHANGED <<currentIndex, last, run>>
     ELSE /\ currentIndex' = NextIndex(currentIndex, LengthOf(items))
          /\ last' = [op |-> "tick", from |-> currentIndex]
          /\ run' = RunAfter("tick", currentIndex')
  /\ UNCHANGED skipNextAutoPlay
  /\ navs' = 0
  /\ UNCHANGED <<isPaused, isManualChange, pendingClears, touchStartX, touchEndX,
                 gesture>>
  /\ UNCHANGED <<now, routeVars, loadVars, otherVars>>

\* the setInterval callback of the auto-play effect
AutoPlayTick ==
  /\ LengthOf(items) > 0
  /\ ~isPaused
  /\ IF skipNextAutoPlay
     THEN /\ skipNextAutoPlay' = FALSE
          /\ UNCHANGED <<currentIndex, last, run>>
     ELSE /\ currentIndex' = NextIndex(currentIndex, LengthOf(items))
          /\ last' = [op |-> "tick", from |-> currentIndex]
          /\ run' = RunAfter("tick", currentIndex')
          /\ UNCHANGED skipNextAutoPlay
  /\ navs' = 0
  /\ UNCHANGED <<isPaused, isManualChange, pendingClears, touchStartX, touchEndX,
                 gesture>>
  /\ UNCHANGED <<now, routeVars, loadVars, otherVars>>

\* no touch on the screen
NoGesture == [phase |-> "none", a |-> 0, b |-> 0, clean |-> TRUE]

handleTouchStart(x) ==
  /\ Rendered
  /\ gesture.phase = "none"
  /\ IF isManualChange
     THEN UNCHANGED <<touchStartX, touchEndX>>
     ELSE /\ touchStartX' = x
          /\ touchEndX' = 0
  /\ gesture' = IF isManualChange
                THEN [phase |-> "start", a |-> 0, b |-> 0, clean |-> FALSE]
                ELSE [phase |-> "start", a |-> x, b |-> 0, clean |-> TRUE]
  /\ UNCHANGED <<currentIndex, isPaused, skipNextAutoPlay, isManualChange,
                 pendingClears, last, run, navs>>
  /\ UNCHANGED <<now, routeVars, loadVars, otherVars>>

handleTouchMove(x) ==
  /\ Rendered
  /\ gesture.phase \in {"start", "move"}
  /\ IF isManualChange
     THEN UNCHANGED touchEndX
     ELSE touchEndX' = x
  /\ gesture' = IF gesture.clean /\ ~isManualChange
                THEN [phase |-> "move", a |-> gesture.a, b |-> x, clean |-> TRUE]
                ELSE [phase |-> "move", a |-> 0, b |-> 0, clean |-> FALSE]
  /\ UNCHANGED <<currentIndex, isPaused, skipNextAutoPlay, isManualChange,
                 pendingClears, touchStartX, last, run, navs>>
  /\ UNCHANGED <<now, routeVars, loadVars, otherVars>>

handleTouchEnd ==
  /\ Rendered
  /\ gesture.phase \in {"start", "move"}
  /\ IF isManualChange \/ touchStartX = 0
     THEN UNCHANGED <<currentIndex, skipNextAutoPlay, isManualChange,
                      pendingClears, touchStartX, touchEndX, last, run, navs>>
     ELSE LET distance == touchStartX - touchEndX IN
          /\ IF touchEndX # 0 /\ Abs(distance) > MinSwipeDistance
             THEN IF distance > 0 THEN goToNext ELSE goToPrevious
             ELSE UNCHANGED <<currentIndex, skipNextAutoPlay, isManualChange,
                              pendingClears, last, run, navs>>
          /\ touchStartX' = 0
          /\ touchEndX' = 0
  /\ gesture' = NoGesture
  /\ UNCHANGED isPaused
  /\ UNCHANGED <<now, routeVars, loadVars, otherVars>>

\* onMouseEnter
MouseEnter ==
  /\ Rendered
  /\ isPaused' = TRUE
  /\ UNCHANGED <<currentIndex, skipNextAutoPlay, isManualChange, pendingClears,
                 touchStartX, touchEndX, last, run, navs, gesture>>
  /\ UNCHANGED <<now, routeVars, loadVars, otherVars>>

\* onMouseLeave
MouseLeave ==
  /\ Rendered
  /\ isPaused' = FALSE
  /\ UNCHANGED <<currentIndex, skipNextAutoPlay, isManualChange, pendingClears,
                 touchStartX, touchEndX, last, run, navs, gesture>>
  /\ UNCHANGED <<now, routeVars, loadVars, otherVars>>

\* useState / useRef initial values
SlidesParked ==
  /\ currentIndex = 0
  /\ isPaused = FALSE
  /\ skipNextAutoPlay = FALSE
  /\ isManualChange = FALSE
  /\ pendingClears = 0
  /\ touchStartX = 0
  /\ touchEndX = 0
  /\ last = [op |-> "none", from |-> 0]
  /\ run = 0
  /\ navs = 0
  /\ gesture = NoGesture

\* ------------------------------------------------------------------------
\* Danmaku selection memory (selection-memory.ts)
\* Strings are sequences of characters; each fixed part of a key is one
\* element.  A store is a function from the keys present to their texts.
\* ------------------------------------------------------------------------
\* const STORAGE_KEY_PREFIX = 'danmaku_selection_'
STORAGE_KEY_PREFIX == <<"danmaku_selection_">>

Digits == <<"0", "1", "2", "3", "4", "5", "6", "7", "8", "9">>

\* Number.prototype.toString of an integer
RECURSIVE NumberToString(_)
NumberToString(n) ==
  IF n < 0 THEN <<"-">> \o NumberToString(-n)
  ELSE IF n < 10 THEN <<Digits[n + 1]>>
  ELSE NumberToString(n \div 10) \o <<Digits[(n % 10) + 1]>>

IsDigit(c) == \E d \in 1..10 : Digits[d] = c

DigitValue(c) == (CHOOSE d \in 1..10 : Digits[d] = c) - 1

\* the digits of text from position i on, read into acc
RECURSIVE ParseDigits(_, _, _)
ParseDigits(text, i, acc) ==
  IF i > Len(text) \/ ~IsDigit(text[i]) THEN acc
  ELSE ParseDigits(text, i + 1, acc * 10 + DigitValue(text[i]))

\* parseInt(text, 10): an optional sign and the digits that follow it, NaN
\* when there is no digit there; what comes after the digits is ignored
ParseInt(text) ==
  LET neg == Len(text) >= 1 /\ text[1] = "-"
      start == IF neg THEN 2 ELSE 1
  IN IF start > Len(text) \/ ~IsDigit(text[start])
     THEN [nan |-> TRUE, n |-> 0]
     ELSE [nan |-> FALSE,
           n |-> IF neg THEN -ParseDigits(text, start, 0)
                 ELSE ParseDigits(text, start, 0)]

\* String.prototype.startsWith
StartsWith(s, prefix) ==
  Len(s) >= Len(prefix) /\ SubSeq(s, 1, Len(prefix)) = prefix

\* `${STORAGE_KEY_PREFIX}index_${title}`
IndexKey(title) == STORAGE_KEY_PREFIX \o <<"index_">> \o title

\* `${STORAGE_KEY_PREFIX}manual_${title}_`
ManualPrefix(title) == STORAGE_KEY_PREFIX \o <<"manual_">> \o title \o <<"_">>

\* `${STORAGE_KEY_PREFIX}manual_${title}_${episodeIndex}`
ManualKey(title, episodeIndex) == ManualPrefix(title) \o NumberToString(episodeIndex)

\* sessionStorage.setItem / removeItem
SetItem(store, key, text) ==
  [k \in (DOMAIN store) \cup {key} |-> IF k = key THEN text ELSE store[k]]

RemoveItems(store, keys) == [k \in (DOMAIN store) \ keys |-> store[k]]

RemoveItem(store, key) == RemoveItems(store, {key})

\* what a call gives: the store after it, the value returned, whether an
\* exception left the function
NullValue == [null |-> TRUE, n |-> 0]

NumberValue(n) == [null |-> FALSE, n |-> n]

Returned(store, ret) == [store |-> store, ret |-> ret, raised |-> FALSE]

Thrown(store) == [store |-> store, ret |-> NullValue, raised |-> TRUE]

\* which storage call of an operation raises ("none": none does;
\* "noWindow": typeof window === 'undefined')
SaveThrows == {"none", "noWindow", "setItem"}

GetThrows == {"none", "noWindow", "getItem"}

ClearThrows == {"none", "noWindow", "removeIndex", "key", "removeManual"}

ClearAllThrows == {"none", "noWindow", "key", "removeItem"}

\* a save whose catch block is missing
saveDanmakuSourceIndexUncaught(store, title, selectedIndex, throws) ==
  IF throws = "noWindow" THEN Returned(store, NullValue)
  ELSE IF throws = "setItem" THEN Thrown(store)
  ELSE Returned(SetItem(store, IndexKey(title), NumberToString(selectedIndex)), NullValue)

saveDanmakuSourceIndex(store, title, selectedIndex, throws) ==
  IF throws = "noWindow" THEN Returned(store, NullValue)
  ELSE IF throws = "setItem" THEN Returned(store, NullValue)          \* catch
  ELSE Returned(SetItem(store, IndexKey(title), NumberToString(selectedIndex)), NullValue)

\* a read that does not parse the text back
getDanmakuSourceIndexUnparsed(store, title, throws) ==
  IF throws # "none" THEN Returned(store, NullValue)
  ELSE IF IndexKey(title) \notin DOMAIN store THEN Returned(store, NullValue)
  ELSE Returned(store, NumberValue(Len(store[IndexKey(title)])))

getDanmakuSourceIndex(store, title, throws) ==
  IF throws = "noWindow" THEN Returned(store, NullValue)
  ELSE IF throws = "getItem" THEN Returned(store, NullValue)          \* catch
  ELSE IF IndexKey(title) \notin DOMAIN store THEN Returned(store, NullValue)
  ELSE LET index == ParseInt(store[IndexKey(title)]) IN
       IF ~index.nan /\ index.n >= 0
       THEN Returned(store, NumberValue(index.n))
       ELSE Returned(store, NullValue)

saveManualDanmakuSelection(store, title, episodeIndex, episodeId, throws) ==
  IF throws = "noWindow" THEN Returned(store, NullValue)
  ELSE IF throws = "setItem" THEN Returned(store, NullValue)          \* catch
  ELSE Returned(SetItem(store, ManualKey(title, episodeIndex), NumberToString(episodeId)),
                NullValue)

getManualDanmakuSelection(store, title, episodeIndex, throws) ==
  IF throws = "noWindow" THEN Returned(store, NullValue)
  ELSE IF throws = "getItem" THEN Returned(store, NullValue)          \* catch
  ELSE IF ManualKey(title, episodeIndex) \notin DOMAIN store
       THEN Returned(store, NullValue)
  ELSE LET episodeId == ParseInt(store[ManualKey(title, episodeIndex)]) IN
       IF ~episodeId.nan
       THEN Returned(store, NumberValue(episodeId.n))
       ELSE Returned(store, NullValue)

\* the keys the loop of clearDanmakuSelectionMemory collects
KeysToRemove(store, title) ==
  {key \in DOMAIN store : StartsWith(key, ManualPrefix(title))}

\* removed: the collected keys already removed when removeItem raises
clearDanmakuSelectionMemory(store, title, throws, removed) ==
  IF throws = "noWindow" THEN Returned(store, NullValue)
  ELSE IF throws = "removeIndex" THEN Returned(store, NullValue)      \* catch
  ELSE LET afterIndex == RemoveItem(store, IndexKey(title)) IN
       IF throws = "key" THEN Returned(afterIndex, NullValue)         \* catch
       ELSE IF throws = "removeManual"
            THEN Returned(RemoveItems(afterIndex, removed), NullValue) \* catch
       ELSE Returned(RemoveItems(afterIndex, KeysToRemove(store, title)), NullValue)

\* the keys in the order sessionStorage.key(i) gives them
KeyOrder(store) ==
  CHOOSE keys \in [1..Cardinality(DOMAIN store) -> DOMAIN store] :
    \A i, j \in DOMAIN keys : i # j => keys[i] # keys[j]

\* a loop that removes a matching key as soon as it meets it: the keys after
\* it move down by one position and the loop index moves on
RECURSIVE RemoveWhileScanning(_, _)
RemoveWhileScanning(keys, i) ==
  IF i > Len(keys) THEN {}
  ELSE IF StartsWith(keys[i], STORAGE_KEY_PREFIX)
       THEN {keys[i]} \cup
            RemoveWhileScanning(SubSeq(keys, 1, i - 1) \o SubSeq(keys, i + 1, Len(keys)),
                                i + 1)
       ELSE RemoveWhileScanning(keys, i + 1)

AllKeysToRemoveScanning(store) == RemoveWhileScanning(KeyOrder(store), 1)

\* the keys the loop of clearAllDanmakuSelectionMemory collects
AllKeysToRemove(store) ==
  {key \in DOMAIN store : StartsWith(key, STORAGE_KEY_PREFIX)}

clearAllDanmakuSelectionMemory(store, throws, removed) ==
  IF throws = "noWindow" THEN Returned(store, NullValue)
  ELSE IF throws = "key" THEN Returned(store, NullValue)              \* catch
  ELSE IF throws = "removeItem"
       THEN Returned(RemoveItems(store, removed), NullValue)          \* catch
  ELSE Returned(RemoveItems(store, AllKeysToRemove(store)), NullValue)

\* ------------------------------------------------------------------------
\* Danmaku selection memory: calls
\* ------------------------------------------------------------------------
\* video titles; one of them is another one followed by "_1"
Titles == { <<"A">>, <<"A", "_", "1">>, <<"B">> }

Episodes == {0, 1}

\* source indexes / episode ids handed to the save functions
Values == {-2, 0, 15}

\* a key of some other feature, and texts no save function writes
OtherKey == <<"player_volume">>

StrayTexts == { <<"x">>, <<"5", "x">> }

EmptyStore == [k \in {} |-> <<>>]

\* the keys other code writes to
StrayKeys == {IndexKey(<<"A">>), ManualKey(<<"A">>, 0), OtherKey}

NoCall ==
  [op |-> "none", title |-> <<>>, episodeIndex |-> 0, failed |-> FALSE,
   ret |-> NullValue, raised |-> FALSE]

Called(op, title, episodeIndex, throws, r) ==
  [op |-> op, title |-> title, episodeIndex |-> episodeIndex,
   failed |-> throws \notin {"none", "noWindow"},
   ret |-> r.ret, raised |-> r.raised]

CallSaveDanmakuSourceIndex(title, selectedIndex, throws) ==
  LET r == saveDanmakuSourceIndex(sessionStorage, title, selectedIndex, throws) IN
  /\ Cardinality(DOMAIN r.store) <= MaxRecords
  /\ sessionStorage' = r.store
  /\ memory' = Called("saveIndex", title, 0, throws, r)
  /\ UNCHANGED <<now, routeVars, loadVars, slideVars, adapterVars, panelVars>>

CallGetDanmakuSourceIndex(title, throws) ==
  LET r == getDanmakuSourceIndex(sessionStorage, title, throws) IN
  /\ sessionStorage' = r.store
  /\ memory' = Called("getIndex", title, 0, throws, r)
  /\ UNCHANGED <<now, routeVars, loadVars, slideVars, adapterVars, panelVars>>

CallSaveManualDanmakuSelection(title, episodeIndex, episodeId, throws) ==
  LET r == saveManualDanmakuSelection(sessionStorage, title, episodeIndex,
                                      episodeId, throws) IN
  /\ Cardinality(DOMAIN r.store) <= MaxRecords
  /\ sessionStorage' = r.store
  /\ memory' = Called("saveManual", title, episodeIndex, throws, r)
  /\ UNCHANGED <<now, routeVars, loadVars, slideVars, adapterVars, panelVars>>

CallGetManualDanmakuSelection(title, episodeIndex, throws) ==
  LET r == getManualDanmakuSelection(sessionStorage, title, episodeIndex, throws) IN
  /\ sessionStorage' = r.store
  /\ memory' = Called("getManual", title, episodeIndex, throws, r)
  /\ UNCHANGED <<now, routeVars, loadVars, slideVars, adapterVars, panelVars>>

\* removeItem can raise in the forEach only when there is a key to remove
CallClearDanmakuSelectionMemory(title, throws, removed) ==
  LET r == clearDanmakuSelectionMemory(sessionStorage, title, throws, removed) IN
  /\ IF throws = "removeManual"
     THEN removed # KeysToRemove(sessionStorage, title)
     ELSE removed = {}
  /\ sessionStorage' = r.store
  /\ memory' = Called("clear", title, 0, throws, r)
  /\ UNCHANGED <<now, routeVars, loadVars, slideVars, adapterVars, panelVars>>

CallClearAllDanmakuSelectionMemory(throws, removed) ==
  LET r == clearAllDanmakuSelectionMemory(sessionStorage, throws, removed) IN
  /\ IF throws = "removeItem"
     THEN removed # AllKeysToRemove(sessionStorage)
     ELSE removed = {}
  /\ sessionStorage' = r.store
  /\ memory' = Called("clearAll", <<>>, 0, throws, r)
  /\ UNCHANGED <<now, routeVars, loadVars, slideVars, adapterVars, panelVars>>

\* other code of the page, or the user, writes a key
StraySetItem(key, text) ==
  /\ Cardinality(DOMAIN SetItem(sessionStorage, key, text)) <= MaxRecords
  /\ sessionStorage' = SetItem(sessionStorage, key, text)
  /\ memory' = NoCall
  /\ UNCHANGED <<now, routeVars, loadVars, slideVars, adapterVars, panelVars>>

MemoryParked ==
  /\ sessionStorage = EmptyStore
  /\ memory = NoCall

\* ------------------------------------------------------------------------
\* Source adapter: payloads and the call
\* ------------------------------------------------------------------------
\* a null entry of CardList
NullTopCard == [isNull |-> TRUE, type |-> <<>>, hasCards |-> FALSE, cards |-> <<>>]

\* a pc_shelves card without children_list.list.cards
ShelfWithoutCards ==
  [isNull |-> FALSE, type |-> PcShelves, hasCards |-> FALSE, cards |-> <<>>]

\* a null entry of cards, and a card without params
NullShelfCard ==
  [isNull |-> TRUE, hasParams |-> FALSE, titleIsNumber |-> FALSE, title |-> <<>>,
   priority_sub_title |-> <<>>, rec_normal_reason |-> <<>>,
   topic_label |-> <<>>, priority_image_url |-> <<>>]

NoParamsCard ==
  [isNull |-> FALSE, hasParams |-> FALSE, titleIsNumber |-> FALSE, title |-> <<>>,
   priority_sub_title |-> <<>>, rec_normal_reason |-> <<>>,
   topic_label |-> <<>>, priority_image_url |-> <<>>]

\* a card whose params.title is the number 7
NumberTitleCard ==
  [isNull |-> FALSE, hasParams |-> TRUE, titleIsNumber |-> TRUE, title |-> <<"7">>,
   priority_sub_title |-> <<>>, rec_normal_reason |-> <<>>,
   topic_label |-> <<>>, priority_image_url |-> <<"u">>]

AdapterShelfCards ==
  { NullShelfCard, NoParamsCard, NumberTitleCard,
    ShelfCard(<<"x">>, <<"u">>, <<"a", "|", "b">>),
    ShelfCard(<<"z">>, <<"v">>, <<"|", "a", "|", "|", "b">>),
    ShelfCard(PromoMarker, <<"u">>, <<>>),
    ShelfCard(<<"y">>, <<>>, <<>>) }

SeqsUpTo(S, n) == UNION {[1..k -> S] : k \in 0..n}

AdapterTopCards ==
  { NullTopCard, TopCard(<<"a">>, <<>>), ShelfWithoutCards }
  \cup {TopCard(PcShelves, cards) : cards \in SeqsUpTo(AdapterShelfCards, MaxCards)}

AdapterPayloads ==
  {NoPayload}
  \cup {[hasCardList |-> TRUE, CardList |-> <<>>]}
  \cup {[hasCardList |-> TRUE, CardList |-> <<c>>] : c \in AdapterTopCards}
  \cup {[hasCardList |-> TRUE, CardList |-> <<c, d>>] :
          c \in AdapterTopCards, d \in AdapterTopCards}

NotParsed == [done |-> FALSE, raised |-> FALSE, list |-> <<>>]

\* const bannerItems = parseTXBannerData(data)
CallParseTXBannerData ==
  /\ ~bannerItems.done
  /\ bannerItems' = [done |-> TRUE,
                raised |-> parseTXBannerDataOutcome(adapterData).raised,
                list |-> parseTXBannerDataOutcome(adapterData).list]
  /\ UNCHANGED adapterData
  /\ UNCHANGED <<now, routeVars, loadVars, slideVars, memoryVars, panelVars>>

AdapterParked ==
  /\ adapterData = NoPayload
  /\ bannerItems = NotParsed

\* ------------------------------------------------------------------------
\* DanmakuPanel
\* ------------------------------------------------------------------------
\* String.prototype.trim, for texts with blanks at the ends
RECURSIVE TrimStart(_)
TrimStart(s) ==
  IF s # <<>> /\ Head(s) = " " THEN TrimStart(Tail(s)) ELSE s

RECURSIVE TrimEnd(_)
TrimEnd(s) ==
  IF s # <<>> /\ s[Len(s)] = " " THEN TrimEnd(SubSeq(s, 1, Len(s) - 1)) ELSE s

Trim(s) == TrimEnd(TrimStart(s))

\* the animes of the danmaku service, by animeId
Animes == {1, 2}

\* texts typed into the search box (or the video title filled in by the
\* effect of lines 122-127)
Keywords == { <<" ">>, <<"k", " ">> }

\* the episodes the service lists for an anime
EpisodesOf(anime) ==
  << [episodeId |-> 10 * anime + 1, of |-> anime],
     [episodeId |-> 10 * anime + 2, of |-> anime] >>

\* what searchAnime can settle with
SearchOutcomes ==
  { [kind |-> "ok", success |-> TRUE, animes |-> <<1, 2>>, errorMessage |-> FALSE],
    [kind |-> "ok", success |-> TRUE, animes |-> <<>>, errorMessage |-> FALSE],
    [kind |-> "ok", success |-> FALSE, animes |-> <<>>, errorMessage |-> TRUE],
    [kind |-> "throw", success |-> FALSE, animes |-> <<>>, errorMessage |-> FALSE] }

\* what getEpisodes(animeId) can settle with
EpisodeOutcomes(anime) ==
  { [kind |-> "ok", success |-> TRUE, episodes |-> EpisodesOf(anime)],
    [kind |-> "ok", success |-> TRUE, episodes |-> <<>>],
    [kind |-> "ok", success |-> FALSE, episodes |-> <<>>],
    [kind |-> "throw", success |-> FALSE, episodes |-> <<>>] }

NoSelection ==
  [set |-> FALSE, animeId |-> 0, episodeId |-> 0, of |-> 0, searchKeyword |-> <<>>]

\* the user types into the search box
SetSearchKeyword(text) ==
  /\ ~isSearching
  /\ searchKeyword # text
  /\ searchKeyword' = text
  /\ UNCHANGED <<searchResults, selectedAnime, episodes, isSearching,
                 isLoadingEpisodes, searchError, pendingEpisodes, selection>>
  /\ UNCHANGED <<now, routeVars, loadVars, slideVars, memoryVars, adapterVars>>

\* handleSearch(searchKeyword) up to the await; the input and the button are
\* disabled while a search is under way
handleSearch ==
  /\ ~isSearching
  /\ IF Trim(searchKeyword) = <<>>
     THEN /\ searchError' = "noKeyword"
          /\ UNCHANGED isSearching
     ELSE /\ isSearching' = TRUE
          /\ searchError' = "null"
  /\ UNCHANGED <<searchKeyword, searchResults, selectedAnime, episodes,
                 isLoadingEpisodes, pendingEpisodes, selection>>
  /\ UNCHANGED <<now, routeVars, loadVars, slideVars, memoryVars, adapterVars>>

\* searchAnime settles: lines 48-62
SearchAnimeDone(outcome) ==
  /\ isSearching
  /\ IF outcome.kind = "throw"
     THEN /\ searchError' = "searchFailed"
          /\ searchResults' = <<>>
     ELSE IF outcome.success /\ Len(outcome.animes) > 0
     THEN /\ searchResults' = outcome.animes
          /\ searchError' = "null"
     ELSE /\ searchResults' = <<>>
          /\ searchError' = (IF outcome.errorMessage THEN "errorMessage"
                             ELSE "notFound")
  /\ isSearching' = FALSE
  /\ UNCHANGED <<searchKeyword, selectedAnime, episodes, isLoadingEpisodes,
                 pendingEpisodes, selection>>
  /\ UNCHANGED <<now, routeVars, loadVars, slideVars, memoryVars, adapterVars>>

\* the number of getEpisodes calls in flight
LoadsInFlight == pendingEpisodes[1] + pendingEpisodes[2]

\* click on a search result: handleAnimeSelect(anime) up to the await; the
\* results are rendered while no anime is selected (line 317)
handleAnimeSelect(anime) ==
  /\ selectedAnime = 0
  /\ \E i \in 1..Len(searchResults) : searchResults[i] = anime
  /\ LoadsInFlight < MaxLoads
  /\ selectedAnime' = anime
  /\ isLoadingEpisodes' = TRUE
  /\ pendingEpisodes' = [pendingEpisodes EXCEPT ![anime] = @ + 1]
  /\ UNCHANGED <<searchKeyword, searchResults, episodes, isSearching,
                 searchError, selection>>
  /\ UNCHANGED <<now, routeVars, loadVars, slideVars, memoryVars, adapterVars>>

\* getEpisodes(anime.animeId) settles: lines 73-86
GetEpisodesDone(anime, outcome) ==
  /\ pendingEpisodes[anime] > 0
  /\ pendingEpisodes' = [pendingEpisodes EXCEPT ![anime] = @ - 1]
  /\ IF outcome.kind = "throw"
     THEN /\ episodes' = <<>>
          /\ searchError' = "episodesFailed"
     ELSE IF outcome.success /\ Len(outcome.episodes) > 0
     THEN /\ episodes' = outcome.episodes
          /\ UNCHANGED searchError
     ELSE /\ episodes' = <<>>
          /\ searchError' = "noEpisodes"
  /\ isLoadingEpisodes' = FALSE
  /\ UNCHANGED <<searchKeyword, searchResults, selectedAnime, isSearching,
                 selection>>
  /\ UNCHANGED <<now, routeVars, loadVars, slideVars, memoryVars, adapterVars>>

\* click on an episode: the list is rendered while an anime is selected and
\* isLoadingEpisodes is false (lines 211, 238)
handleEpisodeSelect(i) ==
  /\ selectedAnime # 0
  /\ ~isLoadingEpisodes
  /\ i \in 1..Len(episodes)
  /\ selection' = [set |-> TRUE,
                   animeId |-> selectedAnime,
                   episodeId |-> episodes[i].episodeId,
                   of |-> episodes[i].of,
                   searchKeyword |-> Trim(searchKeyword)]
  /\ UNCHANGED <<searchKeyword, searchResults, selectedAnime, episodes,
                 isSearching, isLoadingEpisodes, searchError, pendingEpisodes>>
  /\ UNCHANGED <<now, routeVars, loadVars, slideVars, memoryVars, adapterVars>>

\* click on "back to the results" (rendered while an anime is selected)
handleBackToResults ==
  /\ selectedAnime # 0
  /\ selectedAnime' = 0
  /\ episodes' = <<>>
  /\ UNCHANGED <<searchKeyword, searchResults, isSearching, isLoadingEpisodes,
                 searchError, pendingEpisodes, selection>>
  /\ UNCHANGED <<now, routeVars, loadVars, slideVars, memoryVars, adapterVars>>

\* the panel as useState leaves it
PanelParked ==
  /\ searchKeyword = <<>>
  /\ searchResults = <<>>
  /\ selectedAnime = 0
  /\ episodes = <<>>
  /\ isSearching = FALSE
  /\ isLoadingEpisodes = FALSE
  /\ searchError = "null"
  /\ pendingEpisodes = [a \in Animes |-> 0]
  /\ selection = NoSelection

OtherParked == MemoryParked /\ AdapterParked /\ PanelParked

\* ------------------------------------------------------------------------
\* Specifications
\* ------------------------------------------------------------------------
\* the carousel as it is while another component is looked at: mounted, the
\* effect not yet run
LoadParked ==
  /\ localStorage = NoItem
  /\ items = Arr(<<>>)
  /\ isLoading = TRUE
  /\ load = Mounted
  /\ lastWrite = NoWrite

RouteParked ==
  /\ tmdbCache = NoCache
  /\ txCache = NoCache
  /\ config = [BannerDataSource |-> "", TMDBApiKey |-> ""]
  /\ req = [r \in Requests |-> IdleReq]

ServerInit ==
  /\ tmdbCache = NoCache
  /\ txCache = NoCache
  /\ now = 0
  /\ config \in Configs
  /\ req = [r \in Requests |-> IdleReq]
  /\ LoadParked
  /\ SlidesParked
  /\ OtherParked

ServerNext ==
  \/ \E r \in Requests : GETStart(r)
  \/ \E r \in Requests : GETConfigThrows(r)
  \/ \E r \in Requests : GETConfigResolved(r)
  \/ \E r \in Requests, o \in TXOutcomes : GETTXDone(r, o)
  \/ \E r \in Requests, o \in TMDBOutcomes : GETTMDBDone(r, o)
  \/ \E r \in Requests : GETReturn(r)
  \/ \E c \in Configs : SetConfig(c)
  \/ Tick

SpecServer == ServerInit /\ [][ServerNext]_vars

ClientInit ==
  /\ now = 0
  /\ LoadParked
  /\ RouteParked
  /\ SlidesParked
  /\ OtherParked

ClientNext ==
  \/ Mount
  \/ \E getItemThrows \in BOOLEAN : FetchTrendingStart(getItemThrows)
  \/ \E o \in ClientOutcomes, setItemThrows \in BOOLEAN :
        FetchTrendingDone(o, setItemThrows)
  \/ \E text \in ForeignTexts(now) : ForeignSetItem(text)
  \/ ForeignRemoveItem
  \/ ClientTick

SpecClient == ClientInit /\ [][ClientNext]_vars

\* React runs the effect after the mount, and the fetch and response.json()
\* promises settle.  The steps of fetchTrending up to the await are enabled
\* together, whatever getItem does, and each of them ends them all; the same
\* holds for the steps after the await: fairness for one of each is fairness
\* for the effect and for the promise.
SpecClientFair ==
  /\ SpecClient
  /\ WF_vars(FetchTrendingStart(TRUE))
  /\ WF_vars(FetchTrendingDone([kind |-> "throw", result |-> Undefined], TRUE))

\* the state a load that ended with n items leaves
LoadedWith ==
  \E n \in 0..MaxItems :
    /\ items = Arr(ItemList(n))
    /\ isLoading = FALSE
    /\ IF n > 0
       THEN /\ load = [pc |-> "done", calls |-> 1, ev |-> "stored"]
            /\ localStorage = StoredText(CacheText(Arr(ItemList(n)), 0))
            /\ lastWrite = [set |-> TRUE, list |-> Arr(ItemList(n)), at |-> 0]
       ELSE /\ load = [pc |-> "done", calls |-> 1, ev |-> "rejected"]
            /\ localStorage = NoItem
            /\ lastWrite = NoWrite

\* the carousel after a load that ended with n items, or with the network
\* request of its load under way
CarouselInit ==
  /\ now = 0
  /\ RouteParked
  /\ SlidesParked
  /\ OtherParked
  /\ \/ /\ items = Arr(<<>>)
        /\ isLoading = TRUE
        /\ load = [pc |-> "fetching", calls |-> 1, ev |-> "miss"]
        /\ localStorage = NoItem
        /\ lastWrite = NoWrite
     \/ LoadedWith

CarouselNext ==
  \/ \E o \in ClientOutcomes, setItemThrows \in BOOLEAN :
        FetchTrendingDone(o, setItemThrows)
  \/ ClickPrevious
  \/ ClickNext
  \/ \E index \in 0..(MaxItems - 1) : ClickIndicator(index)
  \/ ManualChangeTimeout
  \/ AutoPlayTick
  \/ \E x \in TouchXs : handleTouchStart(x)
  \/ \E x \in TouchXs : handleTouchMove(x)
  \/ handleTouchEnd
  \/ MouseEnter
  \/ MouseLeave

SpecCarousel == CarouselInit /\ [][CarouselNext]_vars

\* setInterval keeps calling back while the auto-play effect is active
SpecCarouselFair == SpecCarousel /\ WF_vars(AutoPlayTick)

\* the selection memory under every order of calls
MemoryInit ==
  /\ now = 0
  /\ RouteParked
  /\ LoadParked
  /\ SlidesParked
  /\ AdapterParked
  /\ PanelParked
  /\ MemoryParked

MemoryNext ==
  \/ \E t \in Titles, v \in Values, th \in SaveThrows :
        CallSaveDanmakuSourceIndex(t, v, th)
  \/ \E t \in Titles, th \in GetThrows : CallGetDanmakuSourceIndex(t, th)
  \/ \E t \in Titles, e \in Episodes, v \in Values, th \in SaveThrows :
        CallSaveManualDanmakuSelection(t, e, v, th)
  \/ \E t \in Titles, e \in Episodes, th \in GetThrows :
        CallGetManualDanmakuSelection(t, e, th)
  \/ \E t \in Titles, th \in ClearThrows :
        \E removed \in SUBSET KeysToRemove(sessionStorage, t) :
          CallClearDanmakuSelectionMemory(t, th, removed)
  \/ \E th \in ClearAllThrows :
        \E removed \in SUBSET AllKeysToRemove(sessionStorage) :
          CallClearAllDanmakuSelectionMemory(th, removed)
  \/ \E key \in StrayKeys, text \in StrayTexts : StraySetItem(key, text)

SpecMemory == MemoryInit /\ [][MemoryNext]_vars

\* parseTXBannerData on every payload of AdapterPayloads
AdapterInit ==
  /\ now = 0
  /\ RouteParked
  /\ LoadParked
  /\ SlidesParked
  /\ MemoryParked
  /\ PanelParked
  /\ adapterData \in AdapterPayloads
  /\ bannerItems = NotParsed

AdapterNext == CallParseTXBannerData

SpecAdapter == AdapterInit /\ [][AdapterNext]_vars

\* the danmaku panel, mounted
PanelInit ==
  /\ now = 0
  /\ RouteParked
  /\ LoadParked
  /\ SlidesParked
  /\ MemoryParked
  /\ AdapterParked
  /\ PanelParked

PanelNext ==
  \/ \E text \in Keywords : SetSearchKeyword(text)
  \/ handleSearch
  \/ \E o \in SearchOutcomes : SearchAnimeDone(o)
  \/ \E anime \in Animes : handleAnimeSelect(anime)
  \/ \E anime \in Animes : \E o \in EpisodeOutcomes(anime) :
        GetEpisodesDone(anime, o)
  \/ \E i \in 1..Len(episodes) : handleEpisodeSelect(i)
  \/ handleBackToResults

SpecPanel == PanelInit /\ [][PanelNext]_vars

\* ========================================================================
\* Claims about the trending route (checked under SpecServer)
\* ========================================================================
\* the step on which request r's GET gets its configuration and checks the
\* cache
Resolves(r) ==
  /\ req[r].pc = "awaitConfig"
  /\ req'[r].pc # "awaitConfig"
  /\ req'[r].ev # "configThrow"

\* the step on which request r's upstream call settles
Settles(r) ==
  /\ req[r].pc \in {"awaitTX", "awaitTMDB"}
  /\ req'[r].pc = "done"

SlotOf(src) == IF src = "TX" THEN txCache ELSE tmdbCache

SlotOfNext(src) == IF src = "TX" THEN txCache' ELSE tmdbCache'

\* the part of C1 about a slot younger than 3 hours: it is served as it is,
\* without an upstream call and without touching the slots
C1_HitPart(r) ==
  LET slot == SlotOf(req'[r].src) IN
  (slot.present /\ now - slot.timestamp < 3) =>
     /\ req'[r].pc = "done"
     /\ req'[r].resp = [status |-> 200, body |-> slot.data]
     /\ req'[r].calls = 0
     /\ UNCHANGED <<tmdbCache, txCache>>

\* C1 as stated: a stored slot is served for 3 hours without an upstream
\* call; a GET at t' with t' - t >= 3 hours is not served from the slot,
\* calls upstream, and replaces the slot with the new result stamped t'.
C1_AsStated ==
  [][\A r \in Requests :
       /\ Resolves(r) =>
            LET slot == SlotOf(req'[r].src) IN
            /\ C1_HitPart(r)
            /\ (slot.present /\ now - slot.timestamp >= 3) =>
                 /\ req'[r].pc \in {"awaitTX", "awaitTMDB"}
                 /\ req'[r].calls = 1
       /\ (/\ Settles(r)
           /\ SlotOf(req[r].src).present
           /\ now - SlotOf(req[r].src).timestamp >= 3) =>
            /\ ~req[r].aged        \* t' is still the time
            /\ SlotOfNext(req[r].src) =
                 [present |-> TRUE, data |-> req'[r].resp.body,
                  timestamp |-> now]
    ]_vars

\* C1 (amended): a stored slot is served unchanged, without an upstream
\* call, to every GET for its source that checks it less than 3 hours after
\* it was stored.  A GET that checks it 3 hours or more after is not served
\* from it: with source TX, or with an API key configured, it makes one
\* upstream call, and when that call returns a result the slot is replaced
\* by that result stamped with the time of the return; with the default
\* source and no API key it answers 400, and when the metadata-provider call
\* throws it answers 500, the slot keeping its old entry in both cases.
C1_CacheValidity ==
  [][\A r \in Requests :
       /\ Resolves(r) =>
            LET src == req'[r].src
                slot == SlotOf(src) IN
            /\ C1_HitPart(r)
            /\ (slot.present /\ now - slot.timestamp >= 3) =>
                 /\ UNCHANGED <<tmdbCache, txCache>>
                 /\ IF src = "TX" \/ config.TMDBApiKey # ""
                    THEN /\ req'[r].pc = (IF src = "TX" THEN "awaitTX" ELSE "awaitTMDB")
                         /\ req'[r].calls = 1
                    ELSE /\ req'[r].pc = "done"
                         /\ req'[r].calls = 0
                         /\ req'[r].resp.status = 400
                         /\ req'[r].resp.body.message
       /\ Settles(r) =>
            /\ req'[r].calls = 1
            /\ IF req'[r].ev = "tmdbThrow"
               THEN /\ UNCHANGED <<tmdbCache, txCache>>
                    /\ req'[r].resp.status = 500
               ELSE /\ req'[r].resp.status = 200
                    /\ SlotOfNext(req[r].src) =
                         [present |-> TRUE, data |-> req'[r].resp.body,
                          timestamp |-> now]
    ]_vars

\* a request was served the TX slot in the last hour of its validity
C1_Witness ==
  \E r \in Requests :
    /\ req[r].pc = "done" /\ req[r].ev = "hit" /\ req[r].src = "TX"
    /\ txCache.present /\ now - txCache.timestamp = 2
    /\ req[r].resp.body = txCache.data

\* C2: a GET handled with BannerDataSource = "TX" reads and writes only the
\* TX slot, a GET handled with any other value only the metadata-provider
\* slot; each slot only ever holds a result fetched from its own source.
C2_SlotIsolation ==
  /\ [](/\ txCache.present => txCache.data.from = "TX"
        /\ tmdbCache.present => tmdbCache.data.from = "TMDB"
        /\ \A r \in Requests :
             (req[r].pc = "done" /\ ~req[r].resp.body.message) =>
                req[r].resp.body.from = (IF req[r].src = "TX" THEN "TX" ELSE "TMDB"))
  /\ [][/\ txCache' # txCache =>
             /\ tmdbCache' = tmdbCache
             /\ \E r \in Requests : Settles(r) /\ req[r].src = "TX"
        /\ tmdbCache' # tmdbCache =>
             /\ txCache' = txCache
             /\ \E r \in Requests : Settles(r) /\ req[r].src # "TX"
        /\ \A r \in Requests :
             (Resolves(r) /\ req'[r].ev = "hit") =>
                req'[r].resp.body = SlotOf(req'[r].src).data
       ]_vars

\* both slots are filled, the configuration has changed in between, and a
\* request has been served from each slot
C2_Witness ==
  /\ txCache.present /\ tmdbCache.present
  /\ \E r, q \in Requests :
       /\ req[r].pc = "done" /\ req[r].ev = "hit" /\ req[r].src = "TX"
       /\ req[q].pc = "done" /\ req[q].ev = "hit" /\ req[q].src # "TX"

\* C3 as stated: with the default source and no API key, GET answers 400 in
\* every cache state.
C3_AsStated ==
  [][\A r \in Requests :
       (Resolves(r) /\ config.BannerDataSource # "TX" /\ config.TMDBApiKey = "") =>
          /\ req'[r].pc = "done"
          /\ req'[r].resp = [status |-> 400, body |-> ErrorBody(400)]
    ]_vars

\* C3 (amended): with the default source and no API key, GET answers with
\* the 400 error response unless the metadata-provider slot holds an
\* unexpired entry; that entry is served instead.
C3_MissingKey ==
  [][\A r \in Requests :
       (Resolves(r) /\ config.BannerDataSource # "TX" /\ config.TMDBApiKey = "") =>
          /\ req'[r].pc = "done"
          /\ req'[r].calls = 0
          /\ IF tmdbCache.present /\ now - tmdbCache.timestamp < 3
             THEN req'[r].resp = [status |-> 200, body |-> tmdbCache.data]
             ELSE req'[r].resp = [status |-> 400, body |-> ErrorBody(400)]
    ]_vars

\* a 400 answered while the metadata-provider slot holds an expired entry
C3_Witness ==
  \E r \in Requests :
    /\ req[r].pc = "done" /\ req[r].ev = "noKey"
    /\ req[r].resp.status = 400
    /\ tmdbCache.present

\* C4: when the configuration load or the metadata-provider fetch throws,
\* the response is the 500 error and the GET has left both slots as they
\* were: the slots change only when an upstream call returns a result.
C4_ThrowLeavesSlots ==
  [][/\ \A r \in Requests :
          (req'[r] # req[r] /\ req'[r].ev \in {"configThrow", "tmdbThrow"}) =>
             /\ req'[r].pc = "done"
             /\ req'[r].resp = [status |-> 500, body |-> ErrorBody(500)]
             /\ UNCHANGED <<tmdbCache, txCache>>
     /\ (tmdbCache' # tmdbCache \/ txCache' # txCache) =>
          \E r \in Requests :
             Settles(r) /\ req'[r].ev \notin {"configThrow", "tmdbThrow"}
    ]_vars

\* the metadata-provider fetch threw while both slots held an entry
C4_Witness ==
  \E r \in Requests :
    /\ req[r].pc = "done" /\ req[r].ev = "tmdbThrow"
    /\ tmdbCache.present /\ txCache.present

\* C5: a GET with source TX that misses the cache makes exactly one upstream
\* request; a non-2xx answer gives {code: status, list: []}, a timeout or an
\* exception gives {code: 500, list: []}, and the GET returns that result as
\* an ordinary response, not the handler's 500 error.
C5_TXDegrades ==
  [][\A r \in Requests : \A o \in TXOutcomes :
       GETTXDone(r, o) =>
          /\ req'[r].pc = "done"
          /\ req'[r].calls = 1
          /\ req'[r].resp.status = 200
          /\ ~req'[r].resp.body.message
          /\ (o.kind = "response" /\ (o.status < 200 \/ o.status > 299)) =>
                (req'[r].resp.body.code = o.status /\ req'[r].resp.body.list = <<>>)
          /\ (o.kind \in {"timeout", "throw"} \/ (o.kind = "response" /\ ~o.jsonOk)) =>
                (req'[r].resp.body.code = 500 /\ req'[r].resp.body.list = <<>>)
    ]_vars

\* one request got the portal's 404 as a result, another the 500 of a timeout
C5_Witness ==
  \E r, q \in Requests :
    /\ req[r].pc = "done" /\ req[r].ev = "response" /\ req[r].resp.body.code = 404
    /\ req[q].pc = "done" /\ req[q].ev = "timeout" /\ req[q].resp.body.code = 500
    /\ req[q].resp.status = 200

\* request r made its own upstream call for the source and has not
\* returned yet
MadeCall(r, source) ==
  /\ req[r].src = source
  /\ req[r].calls = 1
  /\ req[r].pc \in {"awaitTX", "awaitTMDB", "done"}

\* C22: two GETs for the same source that both pass the cache check before
\* either has stored its result each make their own upstream call; when the
\* call of one of them gives a result next to the other GET's own call, that
\* GET returns the result of its own call and the slot holds that result with
\* the time of this completion, whatever the other GET stored or returned
\* (a rejected TMDB call gives no result and stores nothing).
C22_LastCompletionWins ==
  [][\A r, q \in Requests :
       r # q =>
         /\ \A o \in TXOutcomes :
              (MadeCall(r, "TX") /\ GETTXDone(q, o)) =>
                 /\ req[q].calls = 1
                 /\ req'[q].resp = Json(getTXBannerContent(o), 200)
                 /\ txCache' = CacheEntry(getTXBannerContent(o), now)
                 /\ req'[r] = req[r]
         /\ \A o \in TMDBOutcomes :
              (MadeCall(r, "TMDB") /\ GETTMDBDone(q, o)) =>
                 /\ req[q].calls = 1
                 /\ req'[r] = req[r]
                 /\ IF o.kind = "ok"
                    THEN /\ req'[q].resp = Json(o.result, 200)
                         /\ tmdbCache' = CacheEntry(o.result, now)
                    ELSE /\ req'[q].resp = Json(ErrorBody(500), 500)
                         /\ tmdbCache' = tmdbCache
    ]_vars

\* both GETs missed the empty TX slot at time 0, each made its own call, and
\* the slot holds the result of one while the other returned a different one
C22_Witness ==
  \E r, q \in Requests :
    /\ r # q
    /\ now = 0
    /\ req[r].pc = "done" /\ req[q].pc = "done"
    /\ req[r].src = "TX" /\ req[q].src = "TX"
    /\ req[r].calls = 1 /\ req[q].calls = 1
    /\ req[r].resp.body # req[q].resp.body
    /\ txCache = CacheEntry(req[q].resp.body, 0)

\* the upstream call to the video portal failed: a non-2xx answer, a
\* timeout or an exception
TXFailed(o) ==
  \/ o.kind \in {"timeout", "throw"}
  \/ o.kind = "response" /\ (~ResponseOk(o.status) \/ ~o.jsonOk)

\* C24: when the upstream call of a GET with source TX fails, the TX slot
\* holds the failure result {code, list: []} stamped with the time of the
\* failure; the slot is replaced only when an upstream call to the video
\* portal completes; and every GET with source TX that checks the slot less
\* than 3 hours after a failure result was stored returns that failure
\* result without an upstream call.
C24_FailureIsCached ==
  [][/\ \A r \in Requests : \A o \in TXOutcomes :
          (TXFailed(o) /\ GETTXDone(r, o)) =>
             /\ txCache'.present
             /\ txCache'.timestamp = now
             /\ txCache'.data = req'[r].resp.body
             /\ txCache'.data.code # 200
             /\ txCache'.data.code = (IF o.kind = "response" THEN o.status ELSE 500)
             /\ txCache'.data.list = <<>>
     /\ txCache' # txCache =>
          \E r \in Requests : req[r].pc = "awaitTX" /\ req'[r].pc = "done"
     /\ \A r \in Requests :
          (/\ Resolves(r)
           /\ req'[r].src = "TX"
           /\ txCache.present
           /\ txCache.data.code # 200
           /\ now - txCache.timestamp < 3) =>
             /\ req'[r].pc = "done"
             /\ req'[r].calls = 0
             /\ req'[r].resp = Json(txCache.data, 200)
             /\ txCache' = txCache
    ]_vars

\* two hours after the portal answered 404 a GET was served the stored
\* failure result
C24_Witness ==
  \E r \in Requests :
    /\ req[r].pc = "done" /\ req[r].ev = "hit" /\ req[r].src = "TX"
    /\ req[r].calls = 0
    /\ txCache.present /\ txCache.data.code = 404 /\ txCache.data.list = <<>>
    /\ now - txCache.timestamp = 2
    /\ req[r].resp.body = txCache.data

\* ========================================================================
\* Claims about the carousel's persistent cache (checked under SpecClient)
\* ========================================================================
\* the response is one the carousel shows: code 200 and a non-empty list
Shows(o) ==
  /\ o.kind = "json"
  /\ Get(o.result, "code") = Num(200)
  /\ Get(o.result, "list").t = "array"
  /\ Len(Get(o.result, "list").v) > 0

\* C6: after a successful fetch wrote the list L under the key at time t, a
\* later load that reads the key at t' sets the items to exactly L without a
\* network request when t' - t < 24 hours, and issues the network request
\* when t' - t >= 24 hours.
C6_RoundTrip ==
  [][(FetchTrendingStart(FALSE) /\ lastWrite.set) =>
       IF now - lastWrite.at < 24
       THEN /\ items' = lastWrite.list
            /\ ~isLoading'
            /\ load'.pc = "done"
            /\ load'.calls = 0
       ELSE /\ load'.pc = "fetching"
            /\ load'.calls = 1
            /\ items' = Arr(<<>>)
    ]_vars

\* a load served from the entry in the last hour of its validity
C6_Witness ==
  /\ load.pc = "done" /\ load.ev = "hit" /\ load.calls = 0
  /\ lastWrite.set /\ now - lastWrite.at = 23
  /\ items = lastWrite.list /\ Len(items.v) = 2

\* C7: a stored value that is not JSON is a miss: nothing is raised, the
\* network request is issued, and its result is handled as on an empty
\* cache.
C7_CorruptIsMiss ==
  [][/\ (/\ FetchTrendingStart(FALSE)
         /\ localStorage.present
         /\ ~JSONParse(localStorage.text).ok) =>
          /\ load' = [pc |-> "fetching", calls |-> 1, ev |-> "miss"]
          /\ items' = Arr(<<>>)
          /\ isLoading'
          /\ UNCHANGED localStorage
     /\ \A o \in ClientOutcomes : \A w \in BOOLEAN :
          (/\ FetchTrendingDone(o, w)
           /\ localStorage.present
           /\ ~JSONParse(localStorage.text).ok) =>
             /\ load'.pc = "done"
             /\ ~isLoading'
             /\ items' = (IF Shows(o) THEN Get(o.result, "list") ELSE Arr(<<>>))
             /\ localStorage' =
                  (IF Shows(o) /\ ~w
                   THEN [present |-> TRUE,
                         text |-> Stringify(Obj(<< <<"data", Get(o.result, "list")>>,
                                                   <<"timestamp", Num(now)>> >>))]
                   ELSE localStorage)
    ]_vars

\* the network request is under way over a stored text that is cut off
C7_Witness ==
  /\ load.pc = "fetching" /\ load.calls = 1
  /\ localStorage.present
  /\ Len(localStorage.text) > 0
  /\ ~JSONParse(localStorage.text).ok

\* C8: whatever malformed value is stored, the items state stays a list and
\* the carousel does not raise.
C8_ItemsStayList == items.t = "array" /\ ~RenderThrows

\* C9: when the fetch succeeds and the write to storage raises, the items
\* are the fetched list, loading has ended, nothing is raised, and the
\* stored value is what it was.
C9_WriteBestEffort ==
  [][\A o \in ClientOutcomes :
       (FetchTrendingDone(o, TRUE) /\ Shows(o)) =>
          /\ items' = Get(o.result, "list")
          /\ ~isLoading'
          /\ load'.pc = "done"
          /\ load'.ev # "raised"
          /\ UNCHANGED <<localStorage, lastWrite>>
    ]_vars

\* a fetched list is shown although the quota kept it from replacing the
\* expired entry
C9_Witness ==
  /\ load.pc = "done" /\ load.ev = "unstored"
  /\ ~isLoading
  /\ Len(items.v) = 2
  /\ lastWrite.set /\ lastWrite.list # items
  /\ localStorage = [present |-> TRUE,
                     text |-> Stringify(Obj(<< <<"data", lastWrite.list>>,
                                               <<"timestamp", Num(lastWrite.at)>> >>))]

\* C25: the entry the carousel wrote last, as long as nobody else replaced
\* it, holds a non-empty data list; the carousel writes the key only on a
\* response with code 200 and a non-empty list; a failed or empty response
\* leaves the stored value as it is and the items empty.
C25_OnlyGoodResponsesStored ==
  /\ [](lastWrite.set =>
          /\ lastWrite.list.t = "array"
          /\ Len(lastWrite.list.v) > 0
          /\ localStorage = StoredText(CacheText(lastWrite.list, lastWrite.at))
          /\ Get(JSONParse(localStorage.text).val, "data") = lastWrite.list)
  /\ [][\A o \in ClientOutcomes : \A w \in BOOLEAN :
          FetchTrendingDone(o, w) =>
             /\ (localStorage' # localStorage \/ lastWrite' # lastWrite) =>
                   /\ Shows(o)
                   /\ lastWrite' = [set |-> TRUE, list |-> Get(o.result, "list"),
                                    at |-> now]
             /\ ~Shows(o) =>
                   /\ UNCHANGED <<localStorage, lastWrite, items>>
                   /\ items = Arr(<<>>)
       ]_vars

\* a response that is not shown came back over the expired entry of an
\* earlier load: the entry is still there and the items are empty
C25_Witness ==
  /\ load.pc = "done" /\ load.ev \in {"rejected", "raised"}
  /\ load.calls = 1
  /\ lastWrite.set
  /\ now - lastWrite.at >= 24
  /\ localStorage = StoredText(CacheText(lastWrite.list, lastWrite.at))
  /\ items = Arr(<<>>)

\* C27: the load of a mounted carousel always finishes: whatever the stored
\* value, the response and the exceptions are, the loading flag becomes
\* false, every way the load can end sets it to false, and it is true again
\* only in a newly mounted carousel.
C27_LoadFinishes ==
  /\ isLoading ~> ~isLoading
  /\ [][/\ \A getItemThrows \in BOOLEAN :
             (FetchTrendingStart(getItemThrows) /\ load'.pc = "done") => ~isLoading'
        /\ \A o \in ClientOutcomes : \A w \in BOOLEAN :
             FetchTrendingDone(o, w) => (load'.pc = "done" /\ ~isLoading')
        /\ (~isLoading /\ isLoading') => (load.pc = "done" /\ load' = Mounted)
        /\ load'.pc = "done" => ~isLoading'
       ]_vars

\* localStorage.getItem raised: no request was made and the load is over
C27_Witness ==
  /\ load.pc = "done"
  /\ load.ev = "raised"
  /\ load.calls = 0
  /\ ~isLoading
  /\ items = Arr(<<>>)

\* ========================================================================
\* Claims about the slides (checked under SpecCarousel)
\* ========================================================================
\* C10: over N >= 1 items, next gives (i + 1) mod N and previous gives
\* (i - 1 + N) mod N; N next operations in a row from index 0 come back to
\* index 0, previous from index 0 lands on N - 1, and next followed by
\* previous restores the index.
C10_Cyclic ==
  /\ [](Len(items.v) >= 1 =>
          LET N == Len(items.v) IN
          /\ last.op = "next" => currentIndex = (last.from + 1) % N
          /\ last.op = "prev" => currentIndex = (last.from - 1 + N) % N
          /\ (last.op = "prev" /\ last.from = 0) => currentIndex = N - 1
          /\ run >= 0 => (run <= N /\ currentIndex = run % N))
  /\ [][(last.op = "next" /\ last'.op = "prev") => currentIndex' = last.from]_vars

\* three next operations in a row from index 0 of three items
C10_Witness ==
  /\ Len(items.v) = 3
  /\ run = 3
  /\ last = [op |-> "next", from |-> 2]
  /\ currentIndex = 0

\* C11: a timer callback that finds the skip flag set clears it and leaves
\* the index; one that finds it clear moves the index to (index + 1) mod N
\* and leaves the flag clear.  With no manual navigation since the last
\* callback the flag is clear, so one callback is skipped however many
\* manual navigations came before it.
C11_TickSkipsOnce ==
  /\ [][AutoPlayTick =>
          /\ ~skipNextAutoPlay'
          /\ IF skipNextAutoPlay
             THEN currentIndex' = currentIndex
             ELSE currentIndex' = (currentIndex + 1) % Len(items.v)
       ]_vars
  /\ [](navs = 0 => ~skipNextAutoPlay)

\* two manual navigations whose guards are still pending, one callback
\* skipped, the next one moved the index from 2 to 0
C11_Witness ==
  /\ Len(items.v) = 3
  /\ pendingClears = 2
  /\ last = [op |-> "tick", from |-> 2]
  /\ currentIndex = 0
  /\ ~skipNextAutoPlay
  /\ navs = 0

\* C12: from a manual navigation until the first timer callback after it
\* the flag is set and only manual navigations change the index; that first
\* callback leaves the index unchanged.
C12_NoDoubleAdvance ==
  /\ [](navs >= 1 => skipNextAutoPlay)
  /\ [][navs >= 1 =>
          /\ currentIndex' # currentIndex => pendingClears' = pendingClears + 1
          /\ AutoPlayTick => (currentIndex' = currentIndex /\ navs' = 0)
       ]_vars

\* a jump from 0 to 2 whose first callback has been consumed: the index is
\* still 2
C12_Witness ==
  /\ Len(items.v) = 3
  /\ last = [op |-> "jump", from |-> 0]
  /\ currentIndex = 2
  /\ navs = 0
  /\ ~skipNextAutoPlay

\* C13: while the setTimeout of a manual navigation is pending (less than
\* 100 ms have passed since that navigation) the manual guard is set, and a
\* touch event in that time leaves the touch refs and the index alone.
C13_GuardCoversEveryNavigation ==
  /\ [](pendingClears > 0 => isManualChange)
  /\ [][(pendingClears > 0 /\ gesture' # gesture) =>
          UNCHANGED <<touchStartX, touchEndX, currentIndex>>]_vars

\* C14: with the manual guard off throughout, a touch-start at a, a
\* touch-move to b and a touch-end go to the next slide when a - b > 50, to
\* the previous slide when b - a > 50, and leave the slide when
\* |a - b| <= 50, for all a, b >= 0.
C14_SwipeByDistance ==
  [][(handleTouchEnd /\ gesture.phase = "move" /\ gesture.clean
        /\ ~isManualChange) =>
       LET a == gesture.a
           b == gesture.b
           N == Len(items.v)
       IN /\ a - b > 50 =>
               /\ last' = [op |-> "next", from |-> currentIndex]
               /\ currentIndex' = (currentIndex + 1) % N
          /\ b - a > 50 =>
               /\ last' = [op |-> "prev", from |-> currentIndex]
               /\ currentIndex' = (currentIndex - 1 + N) % N
          /\ (a - b <= 50 /\ b - a <= 50) =>
               UNCHANGED <<currentIndex, last, skipNextAutoPlay, pendingClears>>
    ]_vars

\* C15: while the pointer is over the carousel the skip flag is never
\* cleared and the index changes by manual navigation only; when manual
\* navigation stops, a carousel with items that is not hovered gets its
\* index advanced by the timer (or is hovered again).
C15_HoverPausesAndResumes ==
  /\ [][isPaused =>
          /\ skipNextAutoPlay => skipNextAutoPlay'
          /\ currentIndex' # currentIndex => pendingClears' = pendingClears + 1
          /\ last'.op = "tick" => last' = last
       ]_vars
  /\ (<>[][pendingClears' <= pendingClears]_vars) =>
       ((~isPaused /\ Len(items.v) >= 1 /\ last.op # "tick")
          ~> (isPaused \/ last.op = "tick"))

\* the pointer is over the carousel after two manual navigations: the flag
\* waits for the timer
C15_Witness ==
  /\ isPaused
  /\ Len(items.v) = 3
  /\ navs = 2
  /\ skipNextAutoPlay
  /\ pendingClears = 0

\* C16: while the item list is empty (the load under way, failed, or ended
\* without items) no timer callback runs and no control is on screen: the
\* slide state stays as constructed, with index 0, and no step computes a
\* remainder by 0.
C16_EmptyListIsInert ==
  /\ [](Len(items.v) = 0 =>
          /\ currentIndex = 0
          /\ last.op = "none"
          /\ pendingClears = 0
          /\ ~isPaused /\ ~skipNextAutoPlay /\ gesture.phase = "none")
  /\ [][Len(items.v) = 0 => UNCHANGED slideVars]_vars
  /\ [](currentIndex # NaN)

\* the network request of the load failed: no items, nothing on screen
C16_Witness ==
  /\ Len(items.v) = 0
  /\ ~isLoading
  /\ load.pc = "done" /\ load.ev = "raised"
  /\ currentIndex = 0
  /\ SlidesParked

\* C26: with a loaded list of N >= 1 items the current index is an integer
\* with 0 <= index < N, after any sequence of timer ticks, next, previous,
\* jumps from the N indicator buttons, hover, un-hover and touch gestures.
C26_IndexInRange ==
  (items.t = "array" /\ Len(items.v) >= 1) =>
     /\ currentIndex \in Int
     /\ currentIndex # NaN
     /\ 0 <= currentIndex
     /\ currentIndex < Len(items.v)

\* previous from the first of three slides, with the pointer over the
\* carousel: the index is the last one
C26_Witness ==
  /\ Len(items.v) = 3
  /\ isPaused
  /\ last = [op |-> "prev", from |-> 0]
  /\ currentIndex = 2

\* ========================================================================
\* Claims about the selection memory (checked under SpecMemory)
\* ========================================================================
\* C17 as written: with working session storage, after
\* saveDanmakuSourceIndex(title, v) a getDanmakuSourceIndex(title) returns v,
\* and after saveManualDanmakuSelection(title, e, v) a
\* getManualDanmakuSelection(title, e) returns v, for every integer v.
C17_AsStated ==
  [][/\ memory'.op = "saveIndex" =>
          \A v \in Values :
            CallSaveDanmakuSourceIndex(memory'.title, v, "none") =>
              getDanmakuSourceIndex(sessionStorage', memory'.title, "none").ret = NumberValue(v)
     /\ memory'.op = "saveManual" =>
          \A v \in Values :
            CallSaveManualDanmakuSelection(memory'.title, memory'.episodeIndex,
                                           v, "none") =>
              getManualDanmakuSelection(sessionStorage', memory'.title,
                                        memory'.episodeIndex, "none").ret
                = NumberValue(v)
    ]_vars

\* C17: with working session storage, a getDanmakuSourceIndex(title) after
\* saveDanmakuSourceIndex(title, v) returns v when v >= 0 and null when
\* v < 0; a getManualDanmakuSelection(title, e) after
\* saveManualDanmakuSelection(title, e, v) returns v for every integer v.
C17_RoundTrip ==
  [][/\ memory'.op = "saveIndex" =>
          \A v \in Values :
            CallSaveDanmakuSourceIndex(memory'.title, v, "none") =>
              getDanmakuSourceIndex(sessionStorage', memory'.title, "none").ret
                = (IF v >= 0 THEN NumberValue(v) ELSE NullValue)
     /\ memory'.op = "saveManual" =>
          \A v \in Values :
            CallSaveManualDanmakuSelection(memory'.title, memory'.episodeIndex,
                                           v, "none") =>
              getManualDanmakuSelection(sessionStorage', memory'.title,
                                        memory'.episodeIndex, "none").ret
                = NumberValue(v)
    ]_vars

\* a source index 15 read back, beside a saved -2 of another title
C17_Witness ==
  /\ memory.op = "getIndex"
  /\ memory.title = <<"A">>
  /\ memory.ret = NumberValue(15)
  /\ IndexKey(<<"A">>) \in DOMAIN sessionStorage
  /\ sessionStorage[IndexKey(<<"A">>)] = <<"1", "5">>
  /\ ManualKey(<<"B">>, 1) \in DOMAIN sessionStorage
  /\ sessionStorage[ManualKey(<<"B">>, 1)] = <<"-", "2">>

\* C18: clearDanmakuSelectionMemory(title) removes the source-index record
\* and the manual-selection records of that title, and for every other
\* title (one that is the cleared title followed by "_1" included) and
\* every episode the two get functions return after the clear what they
\* returned before it.
C18_ClearTouchesOneTitle ==
  [][\A t \in Titles :
       (memory'.op = "clear" /\ CallClearDanmakuSelectionMemory(t, "none", {})) =>
         /\ IndexKey(t) \notin DOMAIN sessionStorage'
         /\ \A e \in Episodes : ManualKey(t, e) \notin DOMAIN sessionStorage'
         /\ \A u \in Titles \ {t} :
              /\ getDanmakuSourceIndex(sessionStorage', u, "none").ret
                   = getDanmakuSourceIndex(sessionStorage, u, "none").ret
              /\ \A e \in Episodes :
                   getManualDanmakuSelection(sessionStorage', u, e, "none").ret
                     = getManualDanmakuSelection(sessionStorage, u, e, "none").ret
    ]_vars

\* the key the last call read, for a call of one of the get functions
KeyRead ==
  IF memory.op = "getIndex" THEN IndexKey(memory.title)
  ELSE ManualKey(memory.title, memory.episodeIndex)

\* the text is an integer in decimal: digits, or "-" and digits
IsNumeral(text) ==
  \/ Len(text) >= 1 /\ \A i \in 1..Len(text) : IsDigit(text[i])
  \/ Len(text) >= 2 /\ text[1] = "-" /\ \A i \in 2..Len(text) : IsDigit(text[i])

\* the text begins with an integer: a digit, or "-" and a digit
BeginsWithInteger(text) ==
  \/ Len(text) >= 1 /\ IsDigit(text[1])
  \/ Len(text) >= 2 /\ text[1] = "-" /\ IsDigit(text[2])

C23_ClearAllByPrefix ==
  [][(memory'.op = "clearAll" /\ CallClearAllDanmakuSelectionMemory("none", {})) =>
       /\ \A key \in DOMAIN sessionStorage' : ~StartsWith(key, STORAGE_KEY_PREFIX)
       /\ \A key \in DOMAIN sessionStorage :
            ~StartsWith(key, STORAGE_KEY_PREFIX) =>
               /\ key \in DOMAIN sessionStorage'
               /\ sessionStorage'[key] = sessionStorage[key]
       /\ DOMAIN sessionStorage' \subseteq DOMAIN sessionStorage
    ]_vars

\* after a clear-all that did not fail the key of the other feature is still
\* there and no key with the prefix is
C23_Witness ==
  /\ memory.op = "clearAll"
  /\ ~memory.failed
  /\ DOMAIN sessionStorage = {OtherKey}

\* ========================================================================
\* Claims about the source adapter (checked under SpecAdapter)
\* ========================================================================
\* the positions of the card list that hold a pc_shelves card
ShelfPositions(cardList) ==
  {i \in 1..Len(cardList) : ~cardList[i].isNull /\ cardList[i].type = PcShelves}

\* the payload is one of the malformed kinds: no card list, no pc_shelves
\* card, a pc_shelves card without a card array, a null entry in the card
\* list or among the cards of a shelf
Malformed(data) ==
  \/ ~data.hasCardList
  \/ ShelfPositions(data.CardList) = {}
  \/ \E i \in ShelfPositions(data.CardList) : ~data.CardList[i].hasCards
  \/ \E i \in 1..Len(data.CardList) : data.CardList[i].isNull
  \/ \E i \in ShelfPositions(data.CardList) :
       \E j \in 1..Len(data.CardList[i].cards) : data.CardList[i].cards[j].isNull

\* the first pc_shelves card cannot be used: there is no card list, a null
\* entry comes before any pc_shelves card, there is no pc_shelves card, or
\* the first one has no card array or a null entry among its cards
FirstShelfUnusable(data) ==
  \/ ~data.hasCardList
  \/ ShelfPositions(data.CardList) = {}
  \/ LET first == CHOOSE i \in ShelfPositions(data.CardList) :
                    \A k \in ShelfPositions(data.CardList) : i <= k
     IN \/ \E i \in 1..(first - 1) : data.CardList[i].isNull
        \/ ~data.CardList[first].hasCards
        \/ \E j \in 1..Len(data.CardList[first].cards) :
             data.CardList[first].cards[j].isNull

\* C20 as written: parseTXBannerData never raises, and it returns the empty
\* list for every malformed payload.
C20_AsStated ==
  bannerItems.done =>
    /\ ~bannerItems.raised
    /\ Malformed(adapterData) => bannerItems.list = <<>>

\* C20: parseTXBannerData never raises, and it returns the empty list
\* whenever the first pc_shelves card of the payload cannot be used.
C20_EmptyOrFirstShelf ==
  bannerItems.done =>
    /\ ~bannerItems.raised
    /\ FirstShelfUnusable(adapterData) => bannerItems.list = <<>>

\* a null entry before a shelf with a good card: card.type raised, the
\* catch block returned the empty list
C20_Witness ==
  /\ bannerItems.done
  /\ ~bannerItems.raised
  /\ bannerItems.list = <<>>
  /\ Len(adapterData.CardList) = 2
  /\ adapterData.CardList[1].isNull
  /\ adapterData.CardList[2] =
       TopCard(PcShelves, <<ShelfCard(<<"x">>, <<"u">>, <<"a", "|", "b">>)>>)

\* the first pc_shelves card of a payload that has one
FirstShelf(data) ==
  data.CardList[CHOOSE i \in ShelfPositions(data.CardList) :
                  \A k \in ShelfPositions(data.CardList) : i <= k]

\* the card has a params object, a non-empty title, a non-empty image
\* reference and a title without the promotional marker
Qualifies(card) ==
  /\ ~card.isNull
  /\ card.hasParams
  /\ card.title # <<>>
  /\ card.priority_image_url # <<>>
  /\ ~Includes(card.title, PromoMarker)

\* the output items are the given cards, one for one and in order, each with
\* non-empty title and backdrop, poster equal to backdrop, no empty tag
ItemsOf(list, cards) ==
  /\ Len(list) = Len(cards)
  /\ \A j \in 1..Len(list) :
       /\ list[j].title = cards[j].title
       /\ list[j].backdrop_path = cards[j].priority_image_url
       /\ list[j].title # <<>>
       /\ list[j].backdrop_path # <<>>
       /\ list[j].poster_path = list[j].backdrop_path
       /\ \A t \in 1..Len(list[j].tags) : list[j].tags[t] # <<>>

\* C21 as written: for every payload with a pc_shelves card that has a card
\* array, the output is exactly the qualifying cards of the first shelf, in
\* input order.
C21_AsStated ==
  (/\ bannerItems.done
   /\ adapterData.hasCardList
   /\ ShelfPositions(adapterData.CardList) # {}
   /\ FirstShelf(adapterData).hasCards)
  => ItemsOf(bannerItems.list,
             SelectSeq(FirstShelf(adapterData).cards, Qualifies))

\* C21: when the first pc_shelves card can be used and no card of it has a
\* title that is not a string, the output is exactly the qualifying cards of
\* that shelf, in input order, each with non-empty title and backdrop, poster
\* equal to backdrop and no empty tag; when a card of it has such a title and
\* an image, the output is empty.
C21_Filtering ==
  (bannerItems.done /\ ~FirstShelfUnusable(adapterData)) =>
    LET cards == FirstShelf(adapterData).cards IN
    IF \E j \in 1..Len(cards) : cards[j].hasParams /\ cards[j].titleIsNumber
    THEN (\E j \in 1..Len(cards) :
            /\ cards[j].hasParams /\ cards[j].titleIsNumber
            /\ cards[j].priority_image_url # <<>>)
         => bannerItems.list = <<>>
    ELSE ItemsOf(bannerItems.list, SelectSeq(cards, Qualifies))

\* a promotional card before a good one: only the second is in the output,
\* with the empty tags of its label dropped
C21_Witness ==
  /\ bannerItems.done
  /\ adapterData.hasCardList
  /\ Len(adapterData.CardList) = 1
  /\ adapterData.CardList[1] =
       TopCard(PcShelves,
               << ShelfCard(PromoMarker, <<"u">>, <<>>),
                  ShelfCard(<<"z">>, <<"v">>, <<"|", "a", "|", "|", "b">>) >>)
  /\ Len(bannerItems.list) = 1
  /\ bannerItems.list[1].title = <<"z">>
  /\ bannerItems.list[1].tags = << <<"a">>, <<"b">> >>

\* ========================================================================
\* Claims about the danmaku panel (checked under SpecPanel)
\* ========================================================================
\* C28: while an anime is selected the episode list held by the panel is
\* empty or was requested for that anime, and every DanmakuSelection passed
\* to onDanmakuSelect pairs the animeId with an episodeId of that anime.
C28_EpisodesOfSelectedAnime ==
  /\ selectedAnime # 0 =>
       \A i \in 1..Len(episodes) : episodes[i].of = selectedAnime
  /\ selection.set => selection.of = selection.animeId
====
